---- MODULE Spec2Model ----
(***************************************************************************)
(* A model of the indicator normalisation, incremental merge, batch        *)
(* deduplication and exclusion matching of the threat-intelligence         *)
(* service (backend/app/services/threat_intelligence.py and                *)
(* backend/app/services/exclusion_service.py).                             *)
(*                                                                         *)
(* Strings are sequences of one-character strings, so that strip, lower,   *)
(* startswith and split are computed character by character as the Python *)
(* code computes them.                                                     *)
(***************************************************************************)
EXTENDS Integers, Sequences, FiniteSets, Bags, TLC

VARIABLES
    normType,      \* normalisation harness: the indicator type given
    normIn,        \* normalisation harness: the raw value given
    normOnce,      \* normalize_indicator(normType, normIn), or NoStr
    normTwice,     \* normalize_indicator(normType, normOnce), or NoStr
    matchArgs,     \* matching harness: the value, pattern and pattern_type given
    matchResult,   \* matching harness: what _matches_pattern returned, or NoMatchYet
    indicators,    \* table threat_indicators: id -> row
    nextId,        \* the next id the table's primary key sequence gives
    duplicates,    \* table indicator_duplicates: a bag of link rows
    now,           \* the database clock (func.now()) at the latest INSERT
    inflight,      \* a create_indicator request between its SELECT and its COMMIT
    last,          \* the operation that completed last, and what it returned
    exclusions,    \* table indicator_exclusions: id -> row
    nextExclusionId, \* the next id that table's primary key sequence gives
    updated_at,    \* column threat_indicators.updated_at: id -> time
    exclusion_updated_at, \* column indicator_exclusions.updated_at: id -> time
    toggled,       \* what the caller of the latest toggles was returned
    fetch_jobs,    \* table fetch_jobs: id -> row
    nextJobId,     \* the next id that table's primary key sequence gives
    task,          \* the fetch_feed_data_task in progress: its position and locals
    user_sessions, \* table user_sessions: id -> row
    nextSessionId, \* the next id that table's primary key sequence gives
    utcnow,        \* the clock datetime.utcnow() reads
    edr_extractions, \* table edr_extractions: id -> row
    nextExtractionId, \* the next id that table's primary key sequence gives
    run            \* the _run_extraction task in progress: its position and locals

normVars == <<normType, normIn, normOnce, normTwice>>

storeVars == <<indicators, nextId, duplicates, now, inflight, last>>

exclVars == <<exclusions, nextExclusionId>>

matchVars == <<matchArgs, matchResult>>

\* The variables of the two harnesses for the pure functions
pureVars == <<normVars, matchVars>>

\* The updated_at columns, which the timestamp specifications follow
stampVars == <<updated_at, exclusion_updated_at>>

\* The variables the specifications of the store and of the pure functions
\* leave alone
\* The fetch jobs and the background task that runs one
jobVars == <<fetch_jobs, nextJobId, task>>

\* The sessions of the users, and the clock their tokens are stamped with
authVars == <<user_sessions, nextSessionId, utcnow>>

\* The EDR extractions and the background task that runs one
edrVars == <<edr_extractions, nextExtractionId, run>>

otherVars == <<stampVars, toggled, jobVars, authVars, edrVars>>

vars == <<pureVars, storeVars, exclVars, otherVars>>

\* A value no string equals (strings are sequences; this is a sequence
\* holding a non-character).
NoStr == <<"<none>">>

-----------------------------------------------------------------------------
(* Characters and the str methods the services use *)

http == <<"h", "t", "t", "p", ":", "/", "/">>
https == <<"h", "t", "t", "p", "s", ":", "/", "/">>
schemeSep == <<":", "/", "/">>

\* str.lower() on one character of the alphabet used here
LowerChar(c) ==
    CASE c = "A" -> "a"
      [] c = "B" -> "b"
      [] c = "H" -> "h"
      [] c = "T" -> "t"
      [] c = "P" -> "p"
      [] c = "S" -> "s"
      [] OTHER -> c

\* str.lower()
Lower(s) == [i \in 1..Len(s) |-> LowerChar(s[i])]

IsSpace(c) == c = " "

IsDigit(c) == c \in {"0", "1", "2"}

RECURSIVE LStrip(_)
LStrip(s) ==
    IF s # <<>> /\ IsSpace(Head(s)) THEN LStrip(Tail(s)) ELSE s

RECURSIVE RStrip(_)
RStrip(s) ==
    IF s # <<>> /\ IsSpace(s[Len(s)]) THEN RStrip(SubSeq(s, 1, Len(s) - 1)) ELSE s

\* str.strip()
Strip(s) == RStrip(LStrip(s))

\* s.startswith(p)
StartsWith(s, p) == Len(s) >= Len(p) /\ SubSeq(s, 1, Len(p)) = p

\* The least index at which sep occurs in s, or 0 (str.find, 1-based)
Find(s, sep) ==
    LET hits == {i \in 1..(Len(s) - Len(sep) + 1) : SubSeq(s, i, i + Len(sep) - 1) = sep}
    IN  IF hits = {} THEN 0 ELSE CHOOSE i \in hits : \A j \in hits : i <= j

\* s.split(sep)[0]
SplitHead(s, sep) ==
    IF Find(s, sep) = 0 THEN s ELSE SubSeq(s, 1, Find(s, sep) - 1)

\* s.split(sep, 1)[1], for s in which sep occurs
SplitRest(s, sep) == SubSeq(s, Find(s, sep) + Len(sep), Len(s))

\* s.split(sep): the parts of s between the occurrences of sep
RECURSIVE Split(_, _)
Split(s, sep) ==
    IF Find(s, sep) = 0 THEN <<s>>
    ELSE <<SplitHead(s, sep)>> \o Split(SplitRest(s, sep), sep)

\* sep.join(parts)
RECURSIVE Join(_, _)
Join(parts, sep) ==
    IF parts = <<>> THEN <<>>
    ELSE IF Len(parts) = 1 THEN parts[1]
    ELSE parts[1] \o sep \o Join(Tail(parts), sep)

\* A rendering that keeps the digits as they are
KeepDigits(part) == part

\* str(int(part)) for a non-empty string of digits: the leading zeros go
RECURSIVE StrInt(_)
StrInt(part) ==
    IF Len(part) > 1 /\ Head(part) = "0" THEN StrInt(Tail(part)) ELSE part

\* re.match(r'^\d+\.\d+\.\d+\.\d+$', ip)
IsDottedQuad(ip) ==
    LET parts == Split(ip, <<".">>)
    IN  /\ Len(parts) = 4
        /\ \A k \in 1..4 :
              /\ parts[k] # <<>>
              /\ \A i \in 1..Len(parts[k]) : IsDigit(parts[k][i])

-----------------------------------------------------------------------------
(* ThreatIntelligenceService: normalisation *)

IndicatorTypes == {"ip", "domain", "url", "hash", "email", "cve"}

_normalize_ip(value) ==
    LET ip == Lower(Strip(value))
    IN  IF IsDottedQuad(ip)
        THEN LET parts == Split(ip, <<".">>)
             IN  Join([k \in 1..Len(parts) |-> StrInt(parts[k])], <<".">>)
        ELSE IF Find(ip, <<":">>) # 0 THEN Lower(ip)
        ELSE ip

StripProtocol(s) ==
    IF StartsWith(s, http) \/ StartsWith(s, https) THEN SplitRest(s, schemeSep) ELSE s

_normalize_domain(value) ==
    LET d1 == Lower(Strip(value))
        d2 == StripProtocol(d1)
        d3 == SplitHead(d2, <<"/">>)
    IN  IF Find(d3, <<":">>) # 0 THEN SplitHead(d3, <<":">>) ELSE d3

_normalize_url(value) ==
    LET u1 == Lower(Strip(value))
        u2 == StripProtocol(u1)
    IN  SplitHead(SplitHead(u2, <<"?">>), <<"#">>)

normalize_indicator(indicator_type, value) ==
    CASE indicator_type = "ip" -> _normalize_ip(value)
      [] indicator_type = "domain" -> _normalize_domain(value)
      [] indicator_type = "url" -> _normalize_url(value)
      [] indicator_type = "hash" -> Lower(value)
      [] indicator_type = "email" -> Lower(value)
      [] OTHER -> Lower(value)

-----------------------------------------------------------------------------
(* ThreatIntelligenceService: the indicator store *)

\* ThreatLevel, in its order low < medium < high < critical
ThreatLevels == {"low", "medium", "high", "critical"}

LevelRank(level) ==
    CASE level = "low" -> 0
      [] level = "medium" -> 1
      [] level = "high" -> 2
      [] OTHER -> 3

Max(a, b) == IF a >= b THEN a ELSE b

\* No request is between its SELECT and its COMMIT
NoRequest == [pending |-> FALSE]

\* The row create_indicator's query found: none
NoRow == [id |-> 0]

\* The rows with this (indicator_type, normalized_value)
Matching(indicator_type, normalized_value) ==
    {i \in DOMAIN indicators :
        /\ indicators[i].indicator_type = indicator_type
        /\ indicators[i].normalized_value = normalized_value}

\* The attributes of `existing` that create_indicator reads after the SELECT
Loaded(i) ==
    [id |-> i,
     confidence_score |-> indicators[i].confidence_score,
     threat_level |-> indicators[i].threat_level,
     tags |-> indicators[i].tags]

\* query(...).filter(type, normalized_value).first(): the query has no ORDER
\* BY, so any matching row may come first; NoRow when none matches
QueryFirst(indicator_type, normalized_value) ==
    IF Matching(indicator_type, normalized_value) = {} THEN {NoRow}
    ELSE {Loaded(i) : i \in Matching(indicator_type, normalized_value)}

\* The attribute values create_indicator assigns to `existing`
MergedRow(existing, data) ==
    [existing EXCEPT
        !.confidence_score = Max(existing.confidence_score, data.confidence_score),
        !.threat_level = IF data.threat_level # "low" THEN data.threat_level ELSE @,
        !.tags = IF data.tags # {} THEN @ \cup data.tags ELSE @]

\* The UPDATE the session flushes at commit: the columns whose value differs
\* from the value loaded by the SELECT are written, the others are left as
\* the table holds them
Flush(current, loaded, assigned) ==
    [current EXCEPT
        !.confidence_score =
            IF assigned.confidence_score # loaded.confidence_score
            THEN assigned.confidence_score ELSE @,
        !.threat_level =
            IF assigned.threat_level # loaded.threat_level
            THEN assigned.threat_level ELSE @,
        !.tags = IF assigned.tags # loaded.tags THEN assigned.tags ELSE @]

\* A row that stores the raw value as its normalized_value
NewRowRaw(data, normalized_value, first_seen) ==
    [indicator_type |-> data.indicator_type,
     value |-> data.value,
     normalized_value |-> data.value,
     confidence_score |-> data.confidence_score,
     threat_level |-> data.threat_level,
     tags |-> data.tags,
     first_seen |-> first_seen,
     is_active |-> TRUE]

\* ThreatIndicator(...) as create_indicator builds it, with the column
\* defaults first_seen = now() and is_active = True
NewRow(data, normalized_value, first_seen) ==
    [indicator_type |-> data.indicator_type,
     value |-> data.value,
     normalized_value |-> normalized_value,
     confidence_score |-> data.confidence_score,
     threat_level |-> data.threat_level,
     tags |-> data.tags,
     first_seen |-> first_seen,
     is_active |-> TRUE]

MaxIndicators == 2

MaxClock == 1

\* The second half of create_indicator, from `if existing:` to the return,
\* for a request whose SELECT returned request.existing
CreateFinish(request) ==
    LET data == request.data
        existing == request.existing
    IN  IF existing.id # 0
        THEN IF existing.id \in DOMAIN indicators
             THEN /\ indicators' =
                        [indicators EXCEPT ![existing.id] =
                            Flush(@, existing, MergedRow(existing, data))]
                  /\ last' = [op |-> "create_indicator",
                              id |-> existing.id, merged |-> TRUE, raised |-> FALSE]
                  /\ UNCHANGED <<nextId, now>>
             ELSE \* the row was deleted meanwhile: the UPDATE matches no row
                  \* and commit() raises
                  /\ last' = [op |-> "create_indicator",
                              id |-> 0, merged |-> FALSE, raised |-> TRUE]
                  /\ UNCHANGED <<indicators, nextId, now>>
        ELSE /\ nextId <= MaxIndicators
             \* the clock has not moved since the latest INSERT, or it has
             /\ now' \in {t \in {now, now + 1} : t <= MaxClock}
             /\ indicators' =
                    [i \in DOMAIN indicators \cup {nextId} |->
                        IF i = nextId THEN NewRow(data, request.normalized_value, now')
                        ELSE indicators[i]]
             /\ nextId' = nextId + 1
             /\ last' = [op |-> "create_indicator",
                         id |-> nextId, merged |-> FALSE, raised |-> FALSE]

\* The first half of create_indicator: normalise, and SELECT the existing row
CreateRequests(data) ==
    LET normalized_value == normalize_indicator(data.indicator_type, data.value)
    IN  {[pending |-> TRUE, data |-> data, normalized_value |-> normalized_value,
          existing |-> e] :
            e \in QueryFirst(data.indicator_type, normalized_value)}

\* create_indicator, run from its SELECT to its COMMIT with no other request
\* in between
CreateIndicator(data) ==
    /\ \E request \in CreateRequests(data) : CreateFinish(request)
    /\ UNCHANGED <<duplicates, inflight>>

\* create_indicator up to its SELECT; other requests may run before its COMMIT
CreateQuery(data) ==
    /\ inflight = NoRequest
    /\ inflight' \in CreateRequests(data)
    /\ last' = [op |-> "create_indicator_select"]
    /\ UNCHANGED <<indicators, nextId, duplicates, now>>

\* The rest of the create_indicator that CreateQuery began
CreateCommit ==
    /\ inflight # NoRequest
    /\ CreateFinish(inflight)
    /\ inflight' = NoRequest
    /\ UNCHANGED duplicates

\* update_indicator: the fields set in update_data (exclude_unset) are
\* assigned; update_data is a function from the names of the set fields
UpdateIndicator(indicator_id, update_data) ==
    /\ IF indicator_id \in DOMAIN indicators
       THEN /\ indicators' =
                  [indicators EXCEPT ![indicator_id] =
                      [f \in DOMAIN @ |->
                          IF f \in DOMAIN update_data THEN update_data[f] ELSE @[f]]]
            /\ last' = [op |-> "update_indicator", found |-> TRUE]
       ELSE /\ UNCHANGED indicators
            /\ last' = [op |-> "update_indicator", found |-> FALSE]
    /\ UNCHANGED <<nextId, duplicates, now, inflight>>

\* The link rows of the bag b, with the rows that name indicator_id as their
\* primary set to NULL (0): what the ORM does to the `duplicates` relationship
\* of a deleted indicator
Orphaned(b, indicator_id) ==
    LET nulled(l) == IF l.indicator_id = indicator_id
                     THEN [l EXCEPT !.indicator_id = 0] ELSE l
        links == {nulled(l) : l \in DOMAIN b}
        count(m) == LET src == {l \in DOMAIN b : nulled(l) = m}
                        RECURSIVE sum(_)
                        sum(S) == IF S = {} THEN 0
                                  ELSE LET x == CHOOSE x \in S : TRUE
                                       IN  b[x] + sum(S \ {x})
                    IN  sum(src)
    IN  [m \in links |-> count(m)]

\* delete_indicator. The foreign key indicator_duplicates.duplicate_indicator_id
\* refuses the DELETE of an indicator a link names as its duplicate.
DeleteIndicator(indicator_id) ==
    /\ IF indicator_id \notin DOMAIN indicators
       THEN /\ last' = [op |-> "delete_indicator",
                        deleted |-> FALSE, raised |-> FALSE]
            /\ UNCHANGED <<indicators, duplicates>>
       ELSE IF \E l \in DOMAIN duplicates : l.duplicate_indicator_id = indicator_id
       THEN /\ last' = [op |-> "delete_indicator",
                        deleted |-> FALSE, raised |-> TRUE]
            /\ UNCHANGED <<indicators, duplicates>>
       ELSE /\ indicators' = [i \in DOMAIN indicators \ {indicator_id} |-> indicators[i]]
            /\ duplicates' = Orphaned(duplicates, indicator_id)
            /\ last' = [op |-> "delete_indicator",
                        deleted |-> TRUE, raised |-> FALSE]
    /\ UNCHANGED <<nextId, now, inflight>>

\* The orders in which query(ThreatIndicator).all() may return the rows: the
\* query has no ORDER BY
RowOrders ==
    {o \in [1..Cardinality(DOMAIN indicators) -> DOMAIN indicators] :
        \A i, j \in DOMAIN o : o[i] = o[j] => i = j}

GroupKey(i) == <<indicators[i].indicator_type, indicators[i].normalized_value>>

\* groups[key] for the key of row i: the rows of that key, in query order
GroupOf(order, i) ==
    SelectSeq(order, LAMBDA j : GroupKey(j) = GroupKey(i))

\* max(group, key=lambda x: x.confidence_score): the first of the rows of
\* greatest confidence_score
PrimaryOf(group) ==
    LET best == CHOOSE k \in DOMAIN group :
                    /\ \A j \in DOMAIN group :
                          indicators[group[j]].confidence_score
                              <= indicators[group[k]].confidence_score
                    /\ \A j \in 1..(k - 1) :
                          indicators[group[j]].confidence_score
                              < indicators[group[k]].confidence_score
    IN  group[best]

\* The rows deduplicate_indicators links to a primary and deactivates
MarkedDuplicates(order) ==
    {i \in DOMAIN indicators :
        /\ Len(GroupOf(order, i)) > 1
        /\ i # PrimaryOf(GroupOf(order, i))}

\* The IndicatorDuplicate rows one run adds
NewLinks(order) ==
    SetToBag({[indicator_id |-> PrimaryOf(GroupOf(order, i)),
               duplicate_indicator_id |-> i] : i \in MarkedDuplicates(order)})

MaxLinks == 2

\* A deduplication that deletes the duplicates it links
DeduplicateByDeleting(order) ==
    LET marked == MarkedDuplicates(order)
        original_count == Len(order)
        duplicates_found == Cardinality(marked)
    IN  /\ BagCardinality(duplicates) + duplicates_found <= MaxLinks
        /\ duplicates' = duplicates (+) NewLinks(order)
        /\ indicators' = [i \in DOMAIN indicators \ marked |-> indicators[i]]
        /\ last' = [op |-> "deduplicate_indicators",
                    result |-> [original_count |-> original_count,
                                deduplicated_count |-> original_count - duplicates_found,
                                duplicates_found |-> duplicates_found]]
        /\ UNCHANGED <<nextId, now, inflight>>

\* deduplicate_indicators, for one order of the rows
DeduplicateIndicators(order) ==
    LET marked == MarkedDuplicates(order)
        original_count == Len(order)
        duplicates_found == Cardinality(marked)
    IN  /\ BagCardinality(duplicates) + duplicates_found <= MaxLinks
        /\ duplicates' = duplicates (+) NewLinks(order)
        /\ indicators' =
              [i \in DOMAIN indicators |->
                  IF i \in marked THEN [indicators[i] EXCEPT !.is_active = FALSE]
                  ELSE indicators[i]]
        /\ last' = [op |-> "deduplicate_indicators",
                    result |-> [original_count |-> original_count,
                                deduplicated_count |-> original_count - duplicates_found,
                                duplicates_found |-> duplicates_found]]
        /\ UNCHANGED <<nextId, now, inflight>>

\* The writes the commit of deduplicate_indicators flushes, in the order of
\* the unit of work: the UPDATEs of threat_indicators (one for each row whose
\* is_active changes), then the INSERTs into indicator_duplicates
DedupWrites(order) ==
    LET marked == SelectSeq(order, LAMBDA i : i \in MarkedDuplicates(order))
        updates == SelectSeq(marked, LAMBDA i : indicators[i].is_active)
    IN  [k \in 1..Len(updates) |-> [kind |-> "update", id |-> updates[k]]]
        \o [k \in 1..Len(marked) |->
               [kind |-> "insert",
                link |-> [indicator_id |-> PrimaryOf(GroupOf(order, marked[k])),
                          duplicate_indicator_id |-> marked[k]]]]

\* Writes that stay written when a later write fails
WrittenBeforeFailure(writes, failAt) ==
    IF failAt = 0 THEN writes ELSE SubSeq(writes, 1, failAt - 1)

\* The writes db.commit() commits when write number failAt fails (0: none
\* fails): the flush runs in one transaction, which a failure rolls back
Committed(writes, failAt) ==
    IF failAt = 0 THEN writes ELSE <<>>

\* The two tables after the writes
RECURSIVE ApplyWrites(_, _, _)
ApplyWrites(rows, links, writes) ==
    IF writes = <<>> THEN [indicators |-> rows, duplicates |-> links]
    ELSE IF Head(writes).kind = "update"
    THEN ApplyWrites([rows EXCEPT ![Head(writes).id].is_active = FALSE],
                     links, Tail(writes))
    ELSE ApplyWrites(rows, links (+) SetToBag({Head(writes).link}), Tail(writes))

\* deduplicate_indicators when write number failAt of its commit fails: the
\* exception of db.commit() leaves the method and the endpoint
DeduplicateFails(order, failAt) ==
    LET writes == DedupWrites(order)
        stored == ApplyWrites(indicators, duplicates, Committed(writes, failAt))
    IN  /\ failAt \in 1..Len(writes)
        /\ BagCardinality(duplicates) + Cardinality(MarkedDuplicates(order)) <= MaxLinks
        /\ indicators' = stored.indicators
        /\ duplicates' = stored.duplicates
        /\ last' = [op |-> "deduplicate_indicators_raised", raised |-> TRUE]
        /\ UNCHANGED <<nextId, now, inflight>>

-----------------------------------------------------------------------------
(* ExclusionService: pattern matching *)

ReDigits == {"0", "1", "2", "3", "4", "5", "6", "7", "8", "9"}

DigitValue(c) ==
    CASE c = "0" -> 0 [] c = "1" -> 1 [] c = "2" -> 2 [] c = "3" -> 3
      [] c = "4" -> 4 [] c = "5" -> 5 [] c = "6" -> 6 [] c = "7" -> 7
      [] c = "8" -> 8 [] c = "9" -> 9

\* The largest repetition count of the re module, plus one, as a numeral
MAXREPEAT == <<"4", "2", "9", "4", "9", "6", "7", "2", "9", "5">>

RECURSIVE StripZeros(_)
StripZeros(d) == IF Len(d) > 1 /\ Head(d) = "0" THEN StripZeros(Tail(d)) ELSE d

RECURSIVE DigitsGE(_, _)
DigitsGE(x, y) ==
    IF x = <<>> THEN TRUE
    ELSE IF DigitValue(Head(x)) # DigitValue(Head(y))
    THEN DigitValue(Head(x)) > DigitValue(Head(y))
    ELSE DigitsGE(Tail(x), Tail(y))

\* int(a) >= int(b) for two numerals
NumeralGE(a, b) ==
    IF Len(StripZeros(a)) # Len(StripZeros(b))
    THEN Len(StripZeros(a)) > Len(StripZeros(b))
    ELSE DigitsGE(StripZeros(a), StripZeros(b))

RECURSIVE NumeralValue(_)
NumeralValue(d) ==
    IF d = <<>> THEN 0
    ELSE 10 * NumeralValue(SubSeq(d, 1, Len(d) - 1)) + DigitValue(d[Len(d)])

\* int(lo) for a repetition count; a count of ten digits or more is more
\* than the length of any value, and is given as 10^9
RepeatCount(lo) ==
    IF Len(StripZeros(lo)) > 9 THEN 1000000000 ELSE NumeralValue(StripZeros(lo))

\* The digits a string starts with
RECURSIVE DigitRun(_)
DigitRun(s) ==
    IF s # <<>> /\ Head(s) \in ReDigits THEN <<Head(s)>> \o DigitRun(Tail(s)) ELSE <<>>

\* An item of a parsed pattern: one character repeated lo to hi times (hi = -1
\* for no upper limit); repeated tells that a repetition was applied to it
Literal(c) == [atom |-> c, lo |-> 1, hi |-> 1, repeated |-> FALSE]

\* The last item of items, under a repetition of lo to hi
Repeat(items, lo, hi) ==
    [items EXCEPT ![Len(items)] = [atom |-> @.atom, lo |-> lo, hi |-> hi, repeated |-> TRUE]]

\* re.compile for the patterns over letters, digits, '.', '*', '[', '{', '}':
\* a '[' opens a character set that nothing closes; a '*' or a '{n}' needs an
\* item to repeat that is not a repetition itself; the count of '{n}' is
\* checked against MAXREPEAT before that, and the check raises OverflowError,
\* which is no re.error; a '{' that opens no '{n}' is a literal
RECURSIVE ParseRe(_, _)
ParseRe(s, items) ==
    IF s = <<>> THEN [status |-> "ok", items |-> items]
    ELSE IF Head(s) = "[" THEN [status |-> "re.error", items |-> <<>>]
    ELSE IF Head(s) = "*"
    THEN IF items = <<>> \/ items[Len(items)].repeated
         THEN [status |-> "re.error", items |-> <<>>]
         ELSE ParseRe(Tail(s), Repeat(items, 0, -1))
    ELSE IF Head(s) = "{"
    THEN LET lo == DigitRun(Tail(s))
             after == SubSeq(s, Len(lo) + 2, Len(s))
         IN  IF lo # <<>> /\ after # <<>> /\ Head(after) = "}"
             THEN IF NumeralGE(lo, MAXREPEAT)
                  THEN [status |-> "OverflowError", items |-> <<>>]
                  ELSE IF items = <<>> \/ items[Len(items)].repeated
                  THEN [status |-> "re.error", items |-> <<>>]
                  ELSE ParseRe(Tail(after),
                               Repeat(items, RepeatCount(lo), RepeatCount(lo)))
             ELSE ParseRe(Tail(s), Append(items, Literal("{")))
    ELSE ParseRe(Tail(s), Append(items, Literal(Head(s))))

\* One pattern character against one character, under re.IGNORECASE
AtomMatches(c, x) == c = "." \/ LowerChar(c) = LowerChar(x)

\* The parsed pattern matches a prefix of value
RECURSIVE MatchHere(_, _)
MatchHere(items, value) ==
    IF items = <<>> THEN TRUE
    ELSE \E k \in 0..Len(value) :
            /\ k >= Head(items).lo
            /\ Head(items).hi = -1 \/ k <= Head(items).hi
            /\ \A j \in 1..k : AtomMatches(Head(items).atom, value[j])
            /\ MatchHere(Tail(items), SubSeq(value, k + 1, Len(value)))

\* re.search(pattern, value, re.IGNORECASE): raises for a pattern that does
\* not compile, else tells whether the pattern matches somewhere in value
ReSearch(pattern, value) ==
    LET parsed == ParseRe(pattern, <<>>)
    IN  [exception |-> IF parsed.status = "ok" THEN "none" ELSE parsed.status,
         matched |-> /\ parsed.status = "ok"
                     /\ \E i \in 1..(Len(value) + 1) :
                           MatchHere(parsed.items, SubSeq(value, i, Len(value)))]

\* try: return bool(re.search(...)) except re.error: return False
CatchReError(outcome) ==
    IF outcome.exception = "re.error"
    THEN [exception |-> "none", matched |-> FALSE]
    ELSE outcome

\* s.replace(c, by) for a one-character c
RECURSIVE Replace(_, _, _)
Replace(s, c, by) ==
    IF s = <<>> THEN <<>>
    ELSE (IF Head(s) = c THEN by ELSE <<Head(s)>>) \o Replace(Tail(s), c, by)

\* pattern.replace("*", ".*").replace("?", ".")
WildcardRegex(pattern) == Replace(Replace(pattern, "*", <<".", "*">>), "?", <<".">>)

PatternTypes == {"exact", "regex", "wildcard"}

_matches_pattern(value, pattern, pattern_type) ==
    CASE pattern_type = "exact" ->
            [exception |-> "none", matched |-> Lower(value) = Lower(pattern)]
      [] pattern_type = "regex" -> CatchReError(ReSearch(pattern, value))
      [] pattern_type = "wildcard" ->
            CatchReError(ReSearch(WildcardRegex(pattern), value))
      [] OTHER -> [exception |-> "none", matched |-> FALSE]

\* The filter of is_indicator_excluded over the rows of a table of
\* exclusions: active, and of the indicator's type or of type "all"
ApplicableIn(table, indicator_type) ==
    {e \in DOMAIN table :
        /\ table[e].is_active = TRUE
        /\ \/ table[e].indicator_type = indicator_type
           \/ table[e].indicator_type = "all"}

\* A selection that leaves the is_active condition out
AnyStateExclusions(indicator_type) ==
    {e \in DOMAIN exclusions :
        \/ exclusions[e].indicator_type = indicator_type
        \/ exclusions[e].indicator_type = "all"}

\* The rows is_indicator_excluded selects: active, and of the indicator's
\* type or of type "all"
ApplicableExclusions(indicator_type) == ApplicableIn(exclusions, indicator_type)

\* The orders in which a query without ORDER BY may return the rows S
OrdersOf(S) ==
    {o \in [1..Cardinality(S) -> S] : \A i, j \in DOMAIN o : o[i] = o[j] => i = j}

\* The loop of is_indicator_excluded over the selected rows of a table, in
\* query order
RECURSIVE FirstMatchIn(_, _, _)
FirstMatchIn(table, order, value) ==
    IF order = <<>> THEN [raised |-> FALSE, excluded |-> FALSE]
    ELSE LET exclusion == table[Head(order)]
             m == _matches_pattern(value, exclusion.value, exclusion.pattern_type)
         IN  IF m.exception # "none" THEN [raised |-> TRUE, excluded |-> FALSE]
             ELSE IF m.matched THEN [raised |-> FALSE, excluded |-> TRUE]
             ELSE FirstMatchIn(table, Tail(order), value)

\* The loop over the selected rows of the stored exclusions
FirstMatch(order, value) == FirstMatchIn(exclusions, order, value)

\* What is_indicator_excluded(indicator_type, value) may return or raise
\* when the table of exclusions is table
ExcludedUnder(table, indicator_type, value) ==
    {FirstMatchIn(table, order, value) :
        order \in OrdersOf(ApplicableIn(table, indicator_type))}

\* What is_indicator_excluded(indicator_type, value) may return or raise
is_indicator_excluded(indicator_type, value) ==
    {FirstMatch(order, value) : order \in OrdersOf(ApplicableExclusions(indicator_type))}

MaxExclusions == 2

\* create_exclusion, with the column default is_active = True
CreateExclusion(exclusion_data) ==
    /\ nextExclusionId <= MaxExclusions
    /\ exclusions' =
          [e \in DOMAIN exclusions \cup {nextExclusionId} |->
              IF e = nextExclusionId
              THEN [indicator_type |-> exclusion_data.indicator_type,
                    value |-> exclusion_data.value,
                    pattern_type |-> exclusion_data.pattern_type,
                    is_active |-> TRUE]
              ELSE exclusions[e]]
    /\ nextExclusionId' = nextExclusionId + 1
    /\ last' = [op |-> "create_exclusion", id |-> nextExclusionId]
    /\ UNCHANGED <<indicators, nextId, duplicates, now, inflight>>

\* update_exclusion: the fields set in update_data are assigned
UpdateExclusion(exclusion_id, update_data) ==
    /\ IF exclusion_id \in DOMAIN exclusions
       THEN /\ exclusions' =
                  [exclusions EXCEPT ![exclusion_id] =
                      [f \in DOMAIN @ |->
                          IF f \in DOMAIN update_data THEN update_data[f] ELSE @[f]]]
            /\ last' = [op |-> "update_exclusion", found |-> TRUE]
       ELSE /\ UNCHANGED exclusions
            /\ last' = [op |-> "update_exclusion", found |-> FALSE]
    /\ UNCHANGED <<indicators, nextId, duplicates, now, inflight, nextExclusionId>>

\* The toggle endpoint: update_exclusion with is_active = not is_active, or
\* 404 when there is no such exclusion
ToggleExclusion(exclusion_id) ==
    IF exclusion_id \in DOMAIN exclusions
    THEN UpdateExclusion(exclusion_id,
            [f \in {"is_active"} |-> ~exclusions[exclusion_id].is_active])
    ELSE /\ last' = [op |-> "toggle_exclusion", found |-> FALSE]
         /\ UNCHANGED <<indicators, nextId, duplicates, now, inflight, exclVars>>

\* delete_exclusion
DeleteExclusion(exclusion_id) ==
    /\ IF exclusion_id \in DOMAIN exclusions
       THEN /\ exclusions' = [e \in DOMAIN exclusions \ {exclusion_id} |-> exclusions[e]]
            /\ last' = [op |-> "delete_exclusion", deleted |-> TRUE]
       ELSE /\ UNCHANGED exclusions
            /\ last' = [op |-> "delete_exclusion", deleted |-> FALSE]
    /\ UNCHANGED <<indicators, nextId, duplicates, now, inflight, nextExclusionId>>

\* The check endpoint: is_indicator_excluded for a type and a value
CheckIndicatorExclusion(indicator_type, value) ==
    /\ \E outcome \in is_indicator_excluded(indicator_type, value) :
          last' = [op |-> "is_indicator_excluded", indicator_type |-> indicator_type,
                   value |-> value, excluded |-> outcome.excluded,
                   raised |-> outcome.raised]
    /\ UNCHANGED <<indicators, nextId, duplicates, now, inflight, exclVars>>

\* A loop that keeps every row of the page
KeepAll(page, outcomes) == [raised |-> FALSE, items |-> page]

\* The filter loop of get_indicators over the page all_indicators: the rows
\* kept so far, or a raise
RECURSIVE FilterExcluded(_, _)
FilterExcluded(page, outcomes) ==
    IF page = <<>> THEN [raised |-> FALSE, items |-> <<>>]
    ELSE LET rest == FilterExcluded(Tail(page), outcomes)
         IN  IF outcomes[Head(page)].raised \/ rest.raised
             THEN [raised |-> TRUE, items |-> <<>>]
             ELSE IF outcomes[Head(page)].excluded THEN rest
             ELSE [rest EXCEPT !.items = <<Head(page)>> \o @]

\* get_indicators with an optional indicator_type filter ("" for None), skip,
\* limit and include_excluded, the other filters left unset; order is the
\* order in which the store returns the rows
GetIndicators(skip, limit, indicator_type, include_excluded, order) ==
    LET selected == SelectSeq(order, LAMBDA i :
                        indicator_type = "" \/ indicators[i].indicator_type = indicator_type)
        all_indicators ==
            SubSeq(selected, skip + 1,
                   IF skip + limit < Len(selected) THEN skip + limit ELSE Len(selected))
        ids == {all_indicators[k] : k \in DOMAIN all_indicators}
    IN  /\ IF include_excluded
           THEN last' = [op |-> "get_indicators", include_excluded |-> TRUE,
                         page |-> all_indicators, items |-> all_indicators,
                         raised |-> FALSE]
           ELSE \E outcomes \in [ids -> [raised : BOOLEAN, excluded : BOOLEAN]] :
                   /\ \A i \in ids :
                         outcomes[i] \in is_indicator_excluded(
                             indicators[i].indicator_type, indicators[i].value)
                   /\ last' = [op |-> "get_indicators", include_excluded |-> FALSE,
                               page |-> all_indicators,
                               items |-> FilterExcluded(all_indicators, outcomes).items,
                               raised |-> FilterExcluded(all_indicators, outcomes).raised]
        /\ UNCHANGED <<indicators, nextId, duplicates, now, inflight, exclVars>>

\* test_exclusion_pattern tests at most this many indicators
TestLimit == 1000

\* A loop that compares every value with the pattern as an exact pattern
TestExactly(tested, pattern, pattern_type) ==
    [raised |-> FALSE,
     matches |-> SelectSeq(tested, LAMBDA i :
                    _matches_pattern(indicators[i].value, pattern, "exact").matched)]

\* The loop of test_exclusion_pattern over the indicators tested: the
\* matches, or a raise
TestMatches(tested, pattern, pattern_type) ==
    IF \E k \in DOMAIN tested :
          _matches_pattern(indicators[tested[k]].value, pattern,
                           pattern_type).exception # "none"
    THEN [raised |-> TRUE, matches |-> <<>>]
    ELSE [raised |-> FALSE,
          matches |-> SelectSeq(tested, LAMBDA i :
                         _matches_pattern(indicators[i].value, pattern,
                                          pattern_type).matched)]

\* test_exclusion_pattern with an optional indicator_type filter ("" for
\* None); order is the order in which the store returns the rows
TestExclusionPattern(pattern, pattern_type, indicator_type, order) ==
    LET selected == SelectSeq(order, LAMBDA i :
                        indicator_type = "" \/ indicators[i].indicator_type = indicator_type)
        tested == SubSeq(selected, 1,
                         IF Len(selected) < TestLimit THEN Len(selected) ELSE TestLimit)
        result == TestMatches(tested, pattern, pattern_type)
    IN  /\ last' = [op |-> "test_exclusion_pattern", pattern |-> pattern,
                    pattern_type |-> pattern_type, tested |-> tested,
                    matches |-> result.matches, raised |-> result.raised]
        /\ UNCHANGED <<indicators, nextId, duplicates, now, inflight, exclVars>>

-----------------------------------------------------------------------------
(* The store specification: requests made of the service, one at a time    *)
(* except for one create_indicator that other requests may overtake        *)
(* between its SELECT and its COMMIT.                                      *)

chA == <<"A">>
cha_ == <<"a", " ">>
cha == <<"a">>

\* ThreatIndicatorCreate values
CreateInputs ==
    {[indicator_type |-> k[1], value |-> k[2], confidence_score |-> k[3],
      threat_level |-> "low", tags |-> {}] :
        k \in {<<"domain", chA, 5>>, <<"domain", chA, 9>>,
               <<"domain", cha_, 5>>, <<"url", cha, 5>>}}

\* ThreatIndicatorUpdate values, as the functions from their set fields
UpdateInputs ==
    {[f \in {"is_active"} |-> b] : b \in BOOLEAN}
        \cup {[f \in {"confidence_score"} |-> c] : c \in {5, 9}}

StoreInit ==
    /\ indicators = <<>>
    /\ nextId = 1
    /\ duplicates = EmptyBag
    /\ now = 0
    /\ inflight = NoRequest
    /\ last = [op |-> "none"]
    /\ exclusions = <<>>
    /\ nextExclusionId = 1

NormUnused ==
    /\ normType = "ip"
    /\ normIn = <<>>
    /\ normOnce = NoStr
    /\ normTwice = NoStr

NoMatchYet == [called |-> FALSE]

MatchUnused ==
    /\ matchArgs = [value |-> <<>>, pattern |-> <<>>, pattern_type |-> "exact"]
    /\ matchResult = NoMatchYet

StampsUnused ==
    /\ updated_at = <<>>
    /\ exclusion_updated_at = <<>>

\* No exclusion has been toggled
NoToggle == [n |-> 0]

\* No fetch_feed_data_task is in progress
NoTask == [pc |-> "none"]

JobsUnused ==
    /\ fetch_jobs = <<>>
    /\ nextJobId = 1
    /\ task = NoTask

AuthUnused ==
    /\ user_sessions = <<>>
    /\ nextSessionId = 1
    /\ utcnow = 0

\* No _run_extraction is in progress
NoRun == [pc |-> "none"]

EdrUnused ==
    /\ edr_extractions = <<>>
    /\ nextExtractionId = 1
    /\ run = NoRun

OtherUnused ==
    StampsUnused /\ toggled = NoToggle /\ JobsUnused /\ AuthUnused /\ EdrUnused

Init == StoreInit /\ NormUnused /\ MatchUnused /\ OtherUnused

Next ==
    \/ \E data \in CreateInputs : CreateIndicator(data) /\ UNCHANGED <<pureVars, exclVars, otherVars>>
    \/ \E data \in CreateInputs : CreateQuery(data) /\ UNCHANGED <<pureVars, exclVars, otherVars>>
    \/ CreateCommit /\ UNCHANGED <<pureVars, exclVars, otherVars>>
    \/ \E id \in 1..MaxIndicators, update_data \in UpdateInputs :
          UpdateIndicator(id, update_data) /\ UNCHANGED <<pureVars, exclVars, otherVars>>
    \/ \E id \in 1..MaxIndicators : DeleteIndicator(id) /\ UNCHANGED <<pureVars, exclVars, otherVars>>
    \/ \E order \in RowOrders : DeduplicateIndicators(order) /\ UNCHANGED <<pureVars, exclVars, otherVars>>

Spec == Init /\ [][Next]_vars

-----------------------------------------------------------------------------
(* The merge specification: requests made of the service strictly one at a *)
(* time, with inputs that differ in threat level and tags.                 *)

MergeInputs ==
    {[indicator_type |-> k[1], value |-> k[2], confidence_score |-> k[3],
      threat_level |-> k[4], tags |-> k[5]] :
        k \in {<<"domain", chA, 5, "high", {"apt"}>>,
               <<"domain", cha_, 9, "medium", {"c2"}>>,
               <<"domain", chA, 5, "low", {}>>,
               <<"url", cha, 9, "critical", {}>>}}

MergeUpdates ==
    {[f \in {"is_active"} |-> FALSE]}
        \cup {[f \in {"threat_level", "tags"} |-> IF f = "tags" THEN {} ELSE "low"]}

MergeNext ==
    \/ \E data \in MergeInputs : CreateIndicator(data) /\ UNCHANGED <<pureVars, exclVars, otherVars>>
    \/ \E id \in 1..MaxIndicators, update_data \in MergeUpdates :
          UpdateIndicator(id, update_data) /\ UNCHANGED <<pureVars, exclVars, otherVars>>
    \/ \E id \in 1..MaxIndicators : DeleteIndicator(id) /\ UNCHANGED <<pureVars, exclVars, otherVars>>

SpecMerge == Init /\ [][MergeNext]_vars

-----------------------------------------------------------------------------
(* The serving specification: indicators and exclusion rules are created,  *)
(* rules are toggled and deleted, and indicators are checked and served.   *)

chab == <<"a", "b">>
chB == <<"B">>

ServeInputs ==
    {[indicator_type |-> k[1], value |-> k[2], confidence_score |-> 5,
      threat_level |-> "low", tags |-> {}] :
        k \in {<<"domain", chab>>, <<"ip", chB>>}}

\* IndicatorExclusionCreate values
ExclusionInputs ==
    {[indicator_type |-> k[1], pattern_type |-> k[2], value |-> k[3]] :
        k \in {<<"domain", "exact", <<"A", "b">>>>,
               <<"domain", "regex",
                 <<"a", "{", "4", "2", "9", "4", "9", "6", "7", "2", "9", "6", "}">>>>,
               <<"domain", "regex", <<"a", ".", "*">>>>,
               <<"domain", "regex", <<"[">>>>,
               <<"ip", "regex", <<"*", "b">>>>,
               <<"ip", "wildcard", <<"*", "b">>>>,
               <<"domain", "wildcard", <<"?", "[">>>>}}

CheckInputs == {<<"domain", chab>>, <<"ip", chab>>, <<"ip", chB>>}

ServeNext ==
    \/ \E data \in ServeInputs : CreateIndicator(data) /\ UNCHANGED <<pureVars, exclVars, otherVars>>
    \/ \E exclusion_data \in ExclusionInputs :
          CreateExclusion(exclusion_data) /\ UNCHANGED <<pureVars, otherVars>>
    \/ \E id \in 1..MaxExclusions : ToggleExclusion(id) /\ UNCHANGED <<pureVars, otherVars>>
    \/ \E id \in 1..MaxExclusions : DeleteExclusion(id) /\ UNCHANGED <<pureVars, otherVars>>
    \/ \E c \in CheckInputs : CheckIndicatorExclusion(c[1], c[2]) /\ UNCHANGED <<pureVars, otherVars>>
    \/ \E skip \in {0, 1}, limit \in {1, 2}, indicator_type \in {"", "ip"},
          include_excluded \in BOOLEAN, order \in RowOrders :
          GetIndicators(skip, limit, indicator_type, include_excluded, order)
              /\ UNCHANGED <<pureVars, otherVars>>

SpecServe == Init /\ [][ServeNext]_vars

-----------------------------------------------------------------------------
(* The failure specification: the store specification without deletes, and *)
(* with deduplicate_indicators runs in which a write of the commit fails.  *)

MaxWrites == 2

FailNext ==
    \/ \E data \in CreateInputs : CreateIndicator(data) /\ UNCHANGED <<pureVars, exclVars, otherVars>>
    \/ \E data \in CreateInputs : CreateQuery(data) /\ UNCHANGED <<pureVars, exclVars, otherVars>>
    \/ CreateCommit /\ UNCHANGED <<pureVars, exclVars, otherVars>>
    \/ \E id \in 1..MaxIndicators, update_data \in UpdateInputs :
          UpdateIndicator(id, update_data) /\ UNCHANGED <<pureVars, exclVars, otherVars>>
    \/ \E order \in RowOrders : DeduplicateIndicators(order) /\ UNCHANGED <<pureVars, exclVars, otherVars>>
    \/ \E order \in RowOrders, failAt \in 1..MaxWrites :
          DeduplicateFails(order, failAt) /\ UNCHANGED <<pureVars, exclVars, otherVars>>

SpecFail == Init /\ [][FailNext]_vars

-----------------------------------------------------------------------------
(* The address specification: indicators of type ip are created, one       *)
(* request at a time, deactivated and deleted.                             *)

IpInputs ==
    {[indicator_type |-> "ip", value |-> k[1], confidence_score |-> k[2],
      threat_level |-> "low", tags |-> {}] :
        k \in {<<<<"0", "1", ".", "0", ".", "0", ".", "2">>, 5>>,
               <<<<"1", ".", "0", ".", "0", ".", "2">>, 9>>,
               <<<<" ", "1", ".", "0", "0", ".", "0", ".", "2", " ">>, 5>>,
               <<<<"1", ".", "0", ".", "0", ".", "2", "0">>, 5>>}}

IpUpdates == {[f \in {"is_active"} |-> b] : b \in BOOLEAN}

IpNext ==
    \/ \E data \in IpInputs : CreateIndicator(data) /\ UNCHANGED <<pureVars, exclVars, otherVars>>
    \/ \E id \in 1..MaxIndicators, update_data \in IpUpdates :
          UpdateIndicator(id, update_data) /\ UNCHANGED <<pureVars, exclVars, otherVars>>
    \/ \E id \in 1..MaxIndicators : DeleteIndicator(id) /\ UNCHANGED <<pureVars, exclVars, otherVars>>

SpecIp == Init /\ [][IpNext]_vars

-----------------------------------------------------------------------------
(* The pattern-test specification: indicators are created and deleted, and *)
(* patterns are tested against the stored indicators.                      *)

TestInputs ==
    {[indicator_type |-> k[1], value |-> k[2], confidence_score |-> 5,
      threat_level |-> "low", tags |-> {}] :
        k \in {<<"domain", chab>>, <<"ip", chB>>, <<"domain", <<"x", "[">>>>}}

\* The (pattern_type, pattern) pairs tested
TestPatterns == {<<e.pattern_type, e.value>> : e \in ExclusionInputs}

TestNext ==
    \/ \E data \in TestInputs : CreateIndicator(data) /\ UNCHANGED <<pureVars, exclVars, otherVars>>
    \/ \E id \in 1..MaxIndicators : DeleteIndicator(id) /\ UNCHANGED <<pureVars, exclVars, otherVars>>
    \/ \E t \in TestPatterns, indicator_type \in {"", "domain"}, order \in RowOrders :
          TestExclusionPattern(t[2], t[1], indicator_type, order) /\ UNCHANGED <<pureVars, otherVars>>

SpecTest == Init /\ [][TestNext]_vars

-----------------------------------------------------------------------------
(* The normalisation harness: a raw value built from a few fragments is    *)
(* normalised, and the result is normalised again.                         *)

MaxPieces == 3

Pieces ==
    { http,
      <<"H", "T", "T", "P", "S", ":", "/", "/">>,
      <<" ">>, <<"a">>, <<"B">>, <<"/">>, <<":">>, <<"?">>, <<"#">>,
      <<"0", "1">>, <<".", "1", ".", "0", "2", ".", "0">>, <<"0">> }

RECURSIVE Flatten(_)
Flatten(ps) == IF ps = <<>> THEN <<>> ELSE Head(ps) \o Flatten(Tail(ps))

RawValues == {Flatten(ps) : ps \in UNION {[1..n -> Pieces] : n \in 0..MaxPieces}}

NormInit ==
    /\ normType \in IndicatorTypes
    /\ normIn \in RawValues
    /\ normOnce = NoStr
    /\ normTwice = NoStr
    /\ StoreInit
    /\ MatchUnused
    /\ OtherUnused

NormalizeOnce ==
    /\ normOnce = NoStr
    /\ normOnce' = normalize_indicator(normType, normIn)
    /\ UNCHANGED <<normType, normIn, normTwice, matchVars, storeVars, exclVars, otherVars>>

NormalizeTwice ==
    /\ normOnce # NoStr
    /\ normTwice = NoStr
    /\ normTwice' = normalize_indicator(normType, normOnce)
    /\ UNCHANGED <<normType, normIn, normOnce, matchVars, storeVars, exclVars, otherVars>>

NormNext == NormalizeOnce \/ NormalizeTwice

SpecNormalize == NormInit /\ [][NormNext]_vars

-----------------------------------------------------------------------------
(* The matching harness: _matches_pattern is applied to a value, a pattern *)
(* and a pattern_type.                                                     *)

MaxPatternLen == 3

MaxValueLen == 3

PatternChars == {"a", "B", "*", "?", ".", "["}

ValueChars == {"a", "b", "x"}

StringsOver(chars, n) == UNION {[1..k -> chars] : k \in 0..n}

\* The arguments: the patterns of type regex are taken without '?'
MatchArguments ==
    {[value |-> v, pattern |-> p, pattern_type |-> t] :
        v \in StringsOver(ValueChars, MaxValueLen),
        p \in StringsOver(PatternChars, MaxPatternLen),
        t \in PatternTypes}
    \ {[value |-> v, pattern |-> p, pattern_type |-> "regex"] :
        v \in StringsOver(ValueChars, MaxValueLen),
        p \in {q \in StringsOver(PatternChars, MaxPatternLen) :
                  \E i \in 1..Len(q) : q[i] = "?"}}

MatchInit ==
    /\ matchArgs \in MatchArguments
    /\ matchResult = NoMatchYet
    /\ StoreInit
    /\ NormUnused
    /\ OtherUnused

MatchOnce ==
    /\ matchResult = NoMatchYet
    /\ matchResult' =
          [called |-> TRUE,
           outcome |-> _matches_pattern(matchArgs.value, matchArgs.pattern,
                                        matchArgs.pattern_type)]
    /\ UNCHANGED <<matchArgs, normVars, storeVars, exclVars, otherVars>>

MatchNext == MatchOnce

SpecMatch == MatchInit /\ [][MatchNext]_vars

-----------------------------------------------------------------------------
(* The timestamp specification: the store specification without deletes,   *)
(* with the updated_at column of the indicators.                           *)

\* An UPDATE that stamps every row of the table
OnUpdateAll ==
    updated_at' = [i \in DOMAIN indicators' |-> now']

\* updated_at = Column(default=func.now(), onupdate=func.now()): an INSERT
\* stamps the new row and an UPDATE stamps the row it writes; the flush
\* writes no UPDATE for a row none of whose attributes changed
OnUpdate ==
    updated_at' =
        [i \in DOMAIN indicators' |->
            IF i \notin DOMAIN indicators THEN now'
            ELSE IF indicators'[i] # indicators[i] THEN now'
            ELSE updated_at[i]]

\* create_indicator assigns existing.last_seen in its merge branch, so the
\* row it merged into is always written, and stamped
CreateStamp ==
    updated_at' =
        [i \in DOMAIN indicators' |->
            IF i \notin DOMAIN indicators THEN now'
            ELSE IF ~last'.raised /\ last'.id = i THEN now'
            ELSE updated_at[i]]

\* update_indicator assigns indicator.updated_at itself
UpdateStamp(indicator_id) ==
    updated_at' =
        [i \in DOMAIN indicators' |->
            IF i = indicator_id THEN now' ELSE updated_at[i]]

StampInputs ==
    {[indicator_type |-> "domain", value |-> k[1], confidence_score |-> k[2],
      threat_level |-> "low", tags |-> {}] :
        k \in {<<chA, 5>>, <<cha_, 9>>, <<chB, 5>>}}

StampUpdates ==
    {[f \in {"is_active"} |-> FALSE]}
        \cup {[f \in {"confidence_score"} |-> 9]}

StampNext ==
    \/ \E data \in StampInputs :
          CreateIndicator(data) /\ CreateStamp
              /\ UNCHANGED <<pureVars, exclVars, exclusion_updated_at, toggled, jobVars, authVars, edrVars>>
    \/ \E data \in StampInputs :
          CreateQuery(data) /\ UNCHANGED <<pureVars, exclVars, otherVars>>
    \/ CreateCommit /\ CreateStamp
          /\ UNCHANGED <<pureVars, exclVars, exclusion_updated_at, toggled, jobVars, authVars, edrVars>>
    \/ \E id \in 1..MaxIndicators, update_data \in StampUpdates :
          UpdateIndicator(id, update_data) /\ UpdateStamp(id)
              /\ UNCHANGED <<pureVars, exclVars, exclusion_updated_at, toggled, jobVars, authVars, edrVars>>
    \/ \E order \in RowOrders :
          DeduplicateIndicators(order) /\ OnUpdate
              /\ UNCHANGED <<pureVars, exclVars, exclusion_updated_at, toggled, jobVars, authVars, edrVars>>

SpecStamp == Init /\ [][StampNext]_vars

-----------------------------------------------------------------------------
(* The toggle specification: indicators and exclusion rules are created,   *)
(* rules are toggled, and indicators are served; the updated_at columns    *)
(* are followed.                                                           *)

\* indicator_exclusions.updated_at of rule exclusion_id: the column default
\* func.now() at its INSERT, and exclusion.updated_at = datetime.utcnow() in
\* update_exclusion
ExclusionStamp(exclusion_id) ==
    exclusion_updated_at' =
        [e \in DOMAIN exclusions' |->
            IF e = exclusion_id THEN now' ELSE exclusion_updated_at[e]]

\* The caller of the toggle endpoint keeps the rule as it was before the
\* first of its toggles of one rule, and counts those toggles up to two
ToggleSeen(exclusion_id) ==
    toggled' =
        IF exclusion_id \notin DOMAIN exclusions THEN NoToggle
        ELSE IF toggled.n = 1 /\ toggled.id = exclusion_id
        THEN [toggled EXCEPT !.n = 2]
        ELSE [n |-> 1, id |-> exclusion_id, rule |-> exclusions[exclusion_id]]

ToggleRules ==
    {[indicator_type |-> k[1], pattern_type |-> k[2], value |-> k[3]] :
        k \in {<<"domain", "exact", <<"A", "b">>>>,
               <<"domain", "regex",
                 <<"a", "{", "4", "2", "9", "4", "9", "6", "7", "2", "9", "6", "}">>>>,
               <<"ip", "wildcard", <<"*", "b">>>>}}

ToggleNext ==
    \/ \E data \in ServeInputs :
          CreateIndicator(data) /\ CreateStamp
              /\ UNCHANGED <<pureVars, exclVars, exclusion_updated_at, toggled, jobVars, authVars, edrVars>>
    \/ \E exclusion_data \in ToggleRules :
          CreateExclusion(exclusion_data) /\ ExclusionStamp(nextExclusionId)
              /\ UNCHANGED <<pureVars, updated_at, toggled, jobVars, authVars, edrVars>>
    \/ \E id \in 1..MaxExclusions :
          ToggleExclusion(id) /\ ExclusionStamp(id) /\ ToggleSeen(id)
              /\ UNCHANGED <<pureVars, updated_at, jobVars, authVars, edrVars>>
    \/ \E include_excluded \in BOOLEAN, order \in RowOrders :
          GetIndicators(0, 2, "", include_excluded, order)
              /\ UNCHANGED <<pureVars, otherVars>>

SpecToggle == Init /\ [][ToggleNext]_vars

-----------------------------------------------------------------------------
(* The import specification: exclusion rules are imported from JSON files, *)
(* toggled, and checked against values.                                    *)

\* dict.get(key, default) on an item of the parsed JSON file
Get(item, key, default) ==
    IF key \in DOMAIN item THEN item[key] ELSE default

\* The validation of IndicatorExclusionCreate: indicator_type is an
\* IndicatorType and pattern_type a PatternType
ValidExclusion(exclusion_data) ==
    /\ exclusion_data.indicator_type \in IndicatorTypes
    /\ exclusion_data.pattern_type \in PatternTypes

\* The loop of import_exclusions_from_file over the items of a JSON file:
\* the table after the create_exclusion calls made, their ids, and whether
\* the construction of an IndicatorExclusionCreate raised
RECURSIVE ImportLoop(_, _, _)
ImportLoop(table, next_id, data) ==
    IF data = <<>> THEN [table |-> table, created |-> <<>>, raised |-> FALSE]
    ELSE LET item == Head(data)
             exclusion_data ==
                 [indicator_type |-> Get(item, "indicator_type", "all"),
                  value |-> item["value"],
                  pattern_type |-> Get(item, "pattern_type", "exact")]
         IN  IF ~ValidExclusion(exclusion_data)
             THEN [table |-> table, created |-> <<>>, raised |-> TRUE]
             ELSE LET stored ==
                          [e \in DOMAIN table \cup {next_id} |->
                              IF e = next_id
                              THEN [indicator_type |-> exclusion_data.indicator_type,
                                    value |-> exclusion_data.value,
                                    pattern_type |-> exclusion_data.pattern_type,
                                    is_active |-> TRUE]
                              ELSE table[e]]
                      rest == ImportLoop(stored, next_id + 1, Tail(data))
                  IN  [rest EXCEPT !.created = <<next_id>> \o @]

\* import_exclusions_from_file for a file that parses as the JSON list data
ImportExclusionsFromFile(data) ==
    LET result == ImportLoop(exclusions, nextExclusionId, data)
    IN  /\ nextExclusionId + Len(data) - 1 <= MaxExclusions
        /\ exclusions' = result.table
        /\ nextExclusionId' = nextExclusionId + Len(result.created)
        /\ last' = [op |-> "import_exclusions_from_file", data |-> data,
                    created |-> result.created, raised |-> result.raised]
        /\ UNCHANGED <<indicators, nextId, duplicates, now, inflight>>

\* Items of a JSON file, as the functions from their keys
ImportItems ==
    {[k \in {"value"} |-> chab],
     [k \in {"indicator_type", "value"} |->
         IF k = "value" THEN chab ELSE "domain"],
     [k \in {"indicator_type", "value", "pattern_type"} |->
         CASE k = "value" -> <<"*", "b">>
           [] k = "indicator_type" -> "ip"
           [] OTHER -> "wildcard"]}

ImportFiles == {<<x>> : x \in ImportItems} \cup {<<x, y>> : x, y \in ImportItems}

ImportChecks == {<<"domain", chab>>, <<"ip", chab>>, <<"url", chab>>}

ImportNext ==
    \/ \E data \in ImportFiles :
          ImportExclusionsFromFile(data) /\ UNCHANGED <<pureVars, otherVars>>
    \/ \E id \in 1..MaxExclusions : ToggleExclusion(id) /\ UNCHANGED <<pureVars, otherVars>>
    \/ \E id \in 1..MaxExclusions : DeleteExclusion(id) /\ UNCHANGED <<pureVars, otherVars>>
    \/ \E c \in ImportChecks :
          CheckIndicatorExclusion(c[1], c[2]) /\ UNCHANGED <<pureVars, otherVars>>

SpecImport == Init /\ [][ImportNext]_vars

-----------------------------------------------------------------------------
(* The spelling specification: exclusion rules are created and toggled,    *)
(* and raw values that are spellings of one indicator are checked.         *)

SpellRules ==
    {[indicator_type |-> "domain", pattern_type |-> k[1], value |-> k[2]] :
        k \in {<<"exact", chab>>, <<"wildcard", <<"a", "?">>>>,
               <<"exact", chB>>}}

\* The (indicator_type, value) pairs checked
SpellChecks ==
    {<<"domain", chab>>, <<"domain", <<"a", "b", " ">>>>,
     <<"domain", <<"A", "b">>>>, <<"domain", chB>>, <<"url", chab>>}

SpellNext ==
    \/ \E exclusion_data \in SpellRules :
          CreateExclusion(exclusion_data) /\ UNCHANGED <<pureVars, otherVars>>
    \/ \E id \in 1..MaxExclusions : ToggleExclusion(id) /\ UNCHANGED <<pureVars, otherVars>>
    \/ \E c \in SpellChecks :
          CheckIndicatorExclusion(c[1], c[2]) /\ UNCHANGED <<pureVars, otherVars>>

SpecSpell == Init /\ [][SpellNext]_vars

-----------------------------------------------------------------------------
(* The fetch specification: fetch jobs are started, and the background     *)
(* task of a job runs step by step, one task at a time, while indicators   *)
(* are also created through the API.                                       *)

MaxJobs == 2

\* The fetch endpoint: a FetchJob with status "pending" is committed and
\* fetch_feed_data_task is scheduled for it
FetchFeedData ==
    /\ task = NoTask
    /\ nextJobId <= MaxJobs
    /\ fetch_jobs' =
          [j \in DOMAIN fetch_jobs \cup {nextJobId} |->
              IF j = nextJobId
              THEN [status |-> "pending", indicators_found |-> 0, indicators_new |-> 0]
              ELSE fetch_jobs[j]]
    /\ nextJobId' = nextJobId + 1
    /\ task' = [pc |-> "start", job_id |-> nextJobId]
    /\ UNCHANGED <<storeVars, exclVars, pureVars, stampVars, toggled, authVars, edrVars>>

\* fetch_feed_data_task, first commit: job.status = "running"
TaskStart ==
    /\ task.pc = "start"
    /\ fetch_jobs' = [fetch_jobs EXCEPT ![task.job_id].status = "running"]
    /\ task' = [task EXCEPT !.pc = "lookup"]
    /\ UNCHANGED <<nextJobId, storeVars, exclVars, pureVars, stampVars, toggled, authVars, edrVars>>

\* The source and the configuration are looked up: with one of them gone the
\* job is committed as "failed" and the task returns
TaskLookup(present) ==
    /\ task.pc = "lookup"
    /\ IF present
       THEN /\ task' = [task EXCEPT !.pc = "fetch"]
            /\ UNCHANGED fetch_jobs
       ELSE /\ fetch_jobs' = [fetch_jobs EXCEPT ![task.job_id].status = "failed"]
            /\ task' = NoTask
    /\ UNCHANGED <<nextJobId, storeVars, exclVars, pureVars, stampVars, toggled, authVars, edrVars>>

\* fetcher.fetch_indicators() returns the list indicators
TaskFetch(fetched) ==
    /\ task.pc = "fetch"
    /\ task' = [pc |-> "create", job_id |-> task.job_id, indicators |-> fetched,
                rest |-> fetched, new_indicators |-> 0]
    /\ UNCHANGED <<fetch_jobs, nextJobId, storeVars, exclVars, pureVars,
                   stampVars, toggled, authVars, edrVars>>

\* fetcher.fetch_indicators() raises: control passes to the except clause
TaskFetchRaises ==
    /\ task.pc = "fetch"
    /\ task' = [pc |-> "except", job_id |-> task.job_id]
    /\ UNCHANGED <<fetch_jobs, nextJobId, storeVars, exclVars, pureVars,
                   stampVars, toggled, authVars, edrVars>>

\* One round of the loop over the fetched indicators: create_indicator is
\* called, and new_indicators is incremented unless the call raised
TaskCreate ==
    /\ task.pc = "create"
    /\ task.rest # <<>>
    /\ CreateIndicator(Head(task.rest))
    /\ task' = [task EXCEPT
                    !.rest = Tail(@),
                    !.new_indicators = IF last'.raised THEN @ ELSE @ + 1]
    /\ UNCHANGED <<fetch_jobs, nextJobId, exclVars, pureVars, stampVars, toggled, authVars, edrVars>>

\* After the loop, second commit: job.status = "completed" with the counts
TaskComplete ==
    /\ task.pc = "create"
    /\ task.rest = <<>>
    /\ fetch_jobs' =
          [fetch_jobs EXCEPT ![task.job_id] =
              [status |-> "completed",
               indicators_found |-> Len(task.indicators),
               indicators_new |-> task.new_indicators]]
    /\ task' = [pc |-> "last_fetch", job_id |-> task.job_id]
    /\ UNCHANGED <<nextJobId, storeVars, exclVars, pureVars, stampVars, toggled, authVars, edrVars>>

\* Third commit: source.last_fetch. The commit succeeds and the task ends,
\* or it raises (the source row was deleted meanwhile, the connection was
\* lost) and control passes to the except clause
TaskLastFetch(raises) ==
    /\ task.pc = "last_fetch"
    /\ task' = IF raises THEN [pc |-> "except", job_id |-> task.job_id] ELSE NoTask
    /\ UNCHANGED <<fetch_jobs, nextJobId, storeVars, exclVars, pureVars,
                   stampVars, toggled, authVars, edrVars>>

\* The except clause: the job is read again and committed as "failed"
TaskExcept ==
    /\ task.pc = "except"
    /\ fetch_jobs' = [fetch_jobs EXCEPT ![task.job_id].status = "failed"]
    /\ task' = NoTask
    /\ UNCHANGED <<nextJobId, storeVars, exclVars, pureVars, stampVars, toggled, authVars, edrVars>>

\* The indicators a feed may hold; the first two share their normalized
\* value
FeedInputs ==
    {[indicator_type |-> k[1], value |-> k[2], confidence_score |-> k[3],
      threat_level |-> "low", tags |-> {}] :
        k \in {<<"domain", chA, 5>>, <<"domain", cha_, 9>>, <<"url", cha, 5>>}}

MaxFeed == 2

Feeds == UNION {[1..n -> FeedInputs] : n \in 0..MaxFeed}

FetchNext ==
    \/ FetchFeedData
    \/ TaskStart
    \/ \E present \in BOOLEAN : TaskLookup(present)
    \/ \E fetched \in Feeds : TaskFetch(fetched)
    \/ TaskFetchRaises
    \/ TaskCreate
    \/ TaskComplete
    \/ \E raises \in BOOLEAN : TaskLastFetch(raises)
    \/ TaskExcept
    \/ \E data \in FeedInputs :
          CreateIndicator(data) /\ UNCHANGED <<pureVars, exclVars, otherVars>>

SpecFetch == Init /\ [][FetchNext]_vars

-----------------------------------------------------------------------------
(* AuthService: sessions and refresh tokens. The session specification:    *)
(* login, refresh_token, logout and revoke_session, one call at a time,    *)
(* while the clock advances.                                               *)

\* The users: 1 and 2 are active, 3 is disabled
Users == [u \in {1, 2, 3} |-> [is_active |-> u # 3]]

\* The lifetime of a refresh token, in ticks of the clock
REFRESH_TOKEN_EXPIRE_DAYS == 2

MaxTime == 2

MaxSessions == 3

\* create_refresh_token: the signed claims sub, exp and type; two tokens of
\* one user made at the same time are the same string
create_refresh_token(sub) ==
    [sub |-> sub, exp |-> utcnow + REFRESH_TOKEN_EXPIRE_DAYS, type |-> "refresh"]

\* An access token of a user, as create_access_token signs it: no type claim
AccessToken(sub) == [sub |-> sub, exp |-> MaxTime + 1, type |-> "none"]

\* verify_token: the token's claims when its signature is good and it has
\* not expired (every token here carries a good signature)
verify_token(token) == token.exp > utcnow

\* A session created next to the user's active sessions
AddSession(user_id) ==
    [s \in DOMAIN user_sessions \cup {nextSessionId} |->
        IF s = nextSessionId
        THEN [user_id |-> user_id,
              refresh_token |-> create_refresh_token(user_id),
              is_active |-> TRUE]
        ELSE user_sessions[s]]

\* The table after create_user_session: the user's active sessions are set
\* inactive and a session with a new refresh token is added
create_user_session(user_id) ==
    [s \in DOMAIN user_sessions \cup {nextSessionId} |->
        IF s = nextSessionId
        THEN [user_id |-> user_id,
              refresh_token |-> create_refresh_token(user_id),
              is_active |-> TRUE]
        ELSE IF user_sessions[s].user_id = user_id
        THEN [user_sessions[s] EXCEPT !.is_active = FALSE]
        ELSE user_sessions[s]]

AuthFrame ==
    UNCHANGED <<indicators, nextId, duplicates, now, inflight, exclVars,
                pureVars, stampVars, toggled, jobVars, edrVars>>

\* login: 401 for an unknown user or a wrong password, 400 for a disabled
\* user, a new session otherwise
Login(username, password_ok) ==
    /\ nextSessionId <= MaxSessions
    /\ IF username \in DOMAIN Users /\ password_ok /\ Users[username].is_active
       THEN /\ user_sessions' = create_user_session(username)
            /\ nextSessionId' = nextSessionId + 1
            /\ last' = [op |-> "login", rejected |-> FALSE]
       ELSE /\ last' = [op |-> "login", rejected |-> TRUE]
            /\ UNCHANGED <<user_sessions, nextSessionId>>
    /\ UNCHANGED utcnow
    /\ AuthFrame

\* refresh_token: 401 unless the token verifies, has type "refresh" and names
\* an active user; a new session otherwise
RefreshToken(token) ==
    /\ nextSessionId <= MaxSessions
    /\ IF /\ verify_token(token)
          /\ token.type = "refresh"
          /\ token.sub \in DOMAIN Users
          /\ Users[token.sub].is_active
       THEN /\ user_sessions' = create_user_session(token.sub)
            /\ nextSessionId' = nextSessionId + 1
            /\ last' = [op |-> "refresh_token", token |-> token, rejected |-> FALSE]
       ELSE /\ last' = [op |-> "refresh_token", token |-> token, rejected |-> TRUE]
            /\ UNCHANGED <<user_sessions, nextSessionId>>
    /\ UNCHANGED utcnow
    /\ AuthFrame

\* logout: the first active session with this refresh token is set inactive
Logout(token) ==
    LET found == {s \in DOMAIN user_sessions :
                     /\ user_sessions[s].refresh_token = token
                     /\ user_sessions[s].is_active}
    IN  /\ IF found # {}
           THEN /\ \E s \in found :
                     user_sessions' = [user_sessions EXCEPT ![s].is_active = FALSE]
                /\ last' = [op |-> "logout", token |-> token, result |-> TRUE]
           ELSE /\ UNCHANGED user_sessions
                /\ last' = [op |-> "logout", token |-> token, result |-> FALSE]
        /\ UNCHANGED <<nextSessionId, utcnow>>
        /\ AuthFrame

\* revoke_session: the active session with this session_id is set inactive
RevokeSession(session_id) ==
    /\ IF session_id \in DOMAIN user_sessions /\ user_sessions[session_id].is_active
       THEN /\ user_sessions' = [user_sessions EXCEPT ![session_id].is_active = FALSE]
            /\ last' = [op |-> "revoke_session", result |-> TRUE]
       ELSE /\ UNCHANGED user_sessions
            /\ last' = [op |-> "revoke_session", result |-> FALSE]
    /\ UNCHANGED <<nextSessionId, utcnow>>
    /\ AuthFrame

\* Time passes
Tick ==
    /\ utcnow < MaxTime
    /\ utcnow' = utcnow + 1
    /\ UNCHANGED <<user_sessions, nextSessionId, last>>
    /\ AuthFrame

\* The tokens a client may present: the refresh tokens issued so far, and
\* access tokens
TokensHeld ==
    {user_sessions[s].refresh_token : s \in DOMAIN user_sessions}
        \cup {AccessToken(1)}

AuthNext ==
    \/ \E username \in {1, 2, 3, 4}, password_ok \in BOOLEAN : Login(username, password_ok)
    \/ \E token \in TokensHeld : RefreshToken(token)
    \/ \E token \in TokensHeld : Logout(token)
    \/ \E session_id \in 1..MaxSessions : RevokeSession(session_id)
    \/ Tick

SpecAuth == Init /\ [][AuthNext]_vars

-----------------------------------------------------------------------------
(* EDRService: extractions. The extraction specification: threat           *)
(* indicators are created, extractions are started, and the background     *)
(* task of an extraction runs step by step, one task at a time.            *)

www == <<"w", "w", "w", ".">>

\* str.rstrip('/')
RECURSIVE RStripSlash(_)
RStripSlash(s) ==
    IF s # <<>> /\ s[Len(s)] = "/" THEN RStripSlash(SubSeq(s, 1, Len(s) - 1)) ELSE s

\* IndicatorComparisonService._normalize_indicator; NoStr for None
_normalize_indicator(indicator_value) ==
    IF indicator_value = <<>> THEN NoStr
    ELSE LET n1 == Lower(Strip(indicator_value))
             n2 == StripProtocol(n1)
             n3 == IF StartsWith(n2, www) THEN SubSeq(n2, 5, Len(n2)) ELSE n2
         IN  RStripSlash(n3)

\* _extract_domain: the host of a URL, the part of an address after its
\* first '@', a value that holds a dot; NoStr for None
_extract_domain(indicator_value) ==
    IF Find(indicator_value, schemeSep) # 0
    THEN Lower(SplitHead(SplitRest(indicator_value, schemeSep), <<"/">>))
    ELSE IF StartsWith(indicator_value, www)
    THEN Lower(SplitHead(indicator_value, <<"/">>))
    ELSE IF Find(indicator_value, <<"@">>) # 0
    THEN Lower(SplitHead(SplitRest(indicator_value, <<"@">>), <<"@">>))
    ELSE IF Find(indicator_value, <<".">>) # 0
    THEN Lower(indicator_value)
    ELSE NoStr

\* _calculate_similarity(str1, str2) >= 0.8: the Jaccard similarity of the
\* sets of lowered characters
Similar(str1, str2) ==
    LET set1 == {LowerChar(str1[i]) : i \in DOMAIN str1}
        set2 == {LowerChar(str2[i]) : i \in DOMAIN str2}
    IN  /\ str1 # <<>> /\ str2 # <<>>
        /\ 5 * Cardinality(set1 \cap set2) >= 4 * Cardinality(set1 \cup set2)

\* The threat indicators for which find_threat_intelligence_matches builds
\* a match: exact, fuzzy and domain matches
MatchedIndicators(indicator_value) ==
    LET normalized_value == _normalize_indicator(indicator_value)
        domain == _extract_domain(indicator_value)
    IN  {i \in DOMAIN indicators :
            \/ indicators[i].value = indicator_value
            \/ /\ normalized_value \notin {NoStr, <<>>}
               /\ Find(indicators[i].value, normalized_value) # 0
               /\ Similar(normalized_value, indicators[i].value)
            \/ /\ domain \notin {NoStr, <<>>}
               /\ Find(indicators[i].value, domain) # 0}

\* check_threat_intelligence raises: every match is built from ti.confidence,
\* an attribute ThreatIndicator does not have, so a value with a match raises
\* AttributeError; a value without one returns False
CheckRaises(indicator_value) == MatchedIndicators(indicator_value) # {}

MaxExtractions == 2

\* start_extraction: an EDRExtraction with the default status "pending" is
\* committed and _run_extraction is scheduled for it
StartExtraction ==
    /\ run = NoRun
    /\ nextExtractionId <= MaxExtractions
    /\ edr_extractions' =
          [e \in DOMAIN edr_extractions \cup {nextExtractionId} |->
              IF e = nextExtractionId
              THEN [status |-> "pending", total_records |-> 0]
              ELSE edr_extractions[e]]
    /\ nextExtractionId' = nextExtractionId + 1
    /\ run' = [pc |-> "start", extraction_id |-> nextExtractionId]
    /\ UNCHANGED <<storeVars, exclVars, pureVars, stampVars, toggled, jobVars, authVars>>

\* _run_extraction up to its first commit: "failed" without a connection,
\* "running" with one
RunStart(connected) ==
    /\ run.pc = "start"
    /\ IF connected
       THEN /\ edr_extractions' =
                  [edr_extractions EXCEPT ![run.extraction_id].status = "running"]
            /\ run' = [run EXCEPT !.pc = "extract"]
       ELSE /\ edr_extractions' =
                  [edr_extractions EXCEPT ![run.extraction_id].status = "failed"]
            /\ run' = NoRun
    /\ UNCHANGED <<nextExtractionId, storeVars, exclVars, pureVars, stampVars,
                   toggled, jobVars, authVars>>

\* client.extract_indicators returns the values extracted; they are
\* saved and the extraction is committed as "completed"
RunExtract(extracted) ==
    /\ run.pc = "extract"
    /\ edr_extractions' =
          [edr_extractions EXCEPT ![run.extraction_id] =
              [status |-> "completed", total_records |-> Len(extracted)]]
    /\ run' = [pc |-> "analyze", extraction_id |-> run.extraction_id,
               rest |-> extracted]
    /\ UNCHANGED <<nextExtractionId, storeVars, exclVars, pureVars, stampVars,
                   toggled, jobVars, authVars>>

\* The choice of the client or extract_indicators raises: control passes to
\* the except clause
RunExtractRaises ==
    /\ run.pc = "extract"
    /\ run' = [pc |-> "except", extraction_id |-> run.extraction_id]
    /\ UNCHANGED <<edr_extractions, nextExtractionId, storeVars, exclVars,
                   pureVars, stampVars, toggled, jobVars, authVars>>

\* One round of the loop of _analyze_unknown_indicators, called inside the
\* try block of _run_extraction: check_threat_intelligence raises, or the
\* indicator is handed to the LLM analysis, which catches its own exceptions
RunAnalyze ==
    /\ run.pc = "analyze"
    /\ run' = IF run.rest = <<>> THEN NoRun
              ELSE IF CheckRaises(Head(run.rest))
              THEN [pc |-> "except", extraction_id |-> run.extraction_id]
              ELSE [run EXCEPT !.rest = Tail(@)]
    /\ UNCHANGED <<edr_extractions, nextExtractionId, storeVars, exclVars,
                   pureVars, stampVars, toggled, jobVars, authVars>>

\* The except clause of _run_extraction: the extraction is committed as
\* "failed"
RunExcept ==
    /\ run.pc = "except"
    /\ edr_extractions' =
          [edr_extractions EXCEPT ![run.extraction_id].status = "failed"]
    /\ run' = NoRun
    /\ UNCHANGED <<nextExtractionId, storeVars, exclVars, pureVars, stampVars,
                   toggled, jobVars, authVars>>

\* The threat indicators created
EdrInputs ==
    {[indicator_type |-> k[1], value |-> k[2], confidence_score |-> 5,
      threat_level |-> "low", tags |-> {}] :
        k \in {<<"domain", chab>>, <<"url", cha>>}}

\* The indicator values an EDR platform reports
EdrValues == {chab, <<"A", "b">>, <<"b", "a", " ">>, chB}

MaxExtracted == 2

Extracted == UNION {[1..n -> EdrValues] : n \in 0..MaxExtracted}

EdrNext ==
    \/ \E data \in EdrInputs :
          CreateIndicator(data) /\ UNCHANGED <<pureVars, exclVars, otherVars>>
    \/ StartExtraction
    \/ \E connected \in BOOLEAN : RunStart(connected)
    \/ \E extracted \in Extracted : RunExtract(extracted)
    \/ RunExtractRaises
    \/ RunAnalyze
    \/ RunExcept

SpecEdr == Init /\ [][EdrNext]_vars

-----------------------------------------------------------------------------
(* Claims *)

\* C1: normalize_indicator is idempotent: normalising a normalised value of
\* any supported type gives that value back.
C1_NormalizeIdempotent ==
    normTwice # NoStr => normTwice = normOnce

\* The stored rows with the (indicator_type, normalized value) of data
SameKey(data) ==
    Matching(data.indicator_type, normalize_indicator(data.indicator_type, data.value))

\* The rows of the group of row i
GroupMembers(i) ==
    Matching(indicators[i].indicator_type, indicators[i].normalized_value)

\* C2: when deduplicate_indicators has completed, every group of stored
\* indicators with the same (indicator_type, normalized_value) and more than
\* one member holds exactly one active indicator.
C2_OneActivePerGroup ==
    last.op = "deduplicate_indicators" =>
        \A i \in DOMAIN indicators :
            Cardinality(GroupMembers(i)) > 1 =>
                Cardinality({j \in GroupMembers(i) : indicators[j].is_active}) = 1

\* C3: a deduplicate_indicators run that follows a deduplicate_indicators
\* run with no operation in between reports duplicates_found = 0 and marks
\* no further indicator inactive.
C3_RerunFindsNothing ==
    [][(last.op = "deduplicate_indicators" /\ last'.op = "deduplicate_indicators") =>
          /\ last'.result.duplicates_found = 0
          /\ \A i \in DOMAIN indicators :
                indicators'[i].is_active = indicators[i].is_active]_vars

\* C4: the IndicatorDuplicate table holds at most one row for each
\* (indicator_id, duplicate_indicator_id) pair.
C4_OneLinkPerPair ==
    \A l \in DOMAIN duplicates : l.indicator_id # 0 => duplicates[l] <= 1

\* The member of a group the specification names as survivor: greatest
\* confidence_score, then earliest first_seen, then lowest id
Survivor(members) ==
    CHOOSE p \in members :
        \A q \in members \ {p} :
            \/ indicators[p].confidence_score > indicators[q].confidence_score
            \/ /\ indicators[p].confidence_score = indicators[q].confidence_score
               /\ indicators[p].first_seen < indicators[q].first_seen
            \/ /\ indicators[p].confidence_score = indicators[q].confidence_score
               /\ indicators[p].first_seen = indicators[q].first_seen
               /\ p < q

\* C5: the primary deduplicate_indicators keeps for a group of more than one
\* member is the member of greatest confidence_score, among those the one
\* with the earliest first_seen, among those the one with the lowest id,
\* whatever the order in which the store returns the rows.
C5_SurvivorDeterministic ==
    [][\A order \in RowOrders :
          DeduplicateIndicators(order) =>
              \A i \in DOMAIN indicators :
                  Len(GroupOf(order, i)) > 1 =>
                      PrimaryOf(GroupOf(order, i)) = Survivor(GroupMembers(i))]_vars

\* C6: a create_indicator call (run without interruption) whose data has the
\* (indicator_type, normalized value) of an existing active indicator creates
\* no row and returns a record whose confidence_score is the maximum of that
\* of an active indicator of the key and the new one, and whose tags are the
\* union of that indicator's tags and the new ones.
C6_MergeIntoActive ==
    [][\A data \in CreateInputs :
          (/\ CreateIndicator(data)
           /\ \E a \in SameKey(data) : indicators[a].is_active)
          => /\ DOMAIN indicators' = DOMAIN indicators
             /\ last'.merged
             /\ \E a \in SameKey(data) :
                   /\ indicators[a].is_active
                   /\ indicators'[last'.id].confidence_score =
                         Max(indicators[a].confidence_score, data.confidence_score)
                   /\ indicators'[last'.id].tags = indicators[a].tags \cup data.tags]_vars

\* C7: when every stored indicator with the (indicator_type, normalized
\* value) of the data is inactive, create_indicator inserts a new row with
\* is_active = true instead of updating an inactive one.
C7_InactiveNotMerged ==
    [][\A data \in CreateInputs :
          (/\ CreateIndicator(data)
           /\ SameKey(data) # {}
           /\ \A i \in SameKey(data) : ~indicators[i].is_active)
          => /\ ~last'.merged
             /\ last'.id \notin DOMAIN indicators
             /\ last'.id \in DOMAIN indicators'
             /\ indicators'[last'.id].is_active]_vars

\* C8: a create_indicator call that merges into an existing indicator never
\* lowers its threat_level (low < medium < high < critical), and leaves it
\* unchanged when the incoming level is low.
C8_MergeNeverLowersLevel ==
    [][\A data \in MergeInputs :
          (CreateIndicator(data) /\ last'.merged)
          => /\ LevelRank(indicators'[last'.id].threat_level)
                  >= LevelRank(indicators[last'.id].threat_level)
             /\ data.threat_level = "low" =>
                  indicators'[last'.id].threat_level
                      = indicators[last'.id].threat_level]_vars

\* Rule e matches value under its pattern_type
RuleMatches(e, value) ==
    _matches_pattern(value, exclusions[e].value, exclusions[e].pattern_type).matched

\* C9: is_indicator_excluded(type, value) returns true only if some stored
\* exclusion rule is active, has the indicator_type type or "all", and
\* matches value under its pattern_type; inactive rules and rules of another
\* type never cause exclusion.
C9_ExcludedOnlyByApplicableRule ==
    (last.op = "is_indicator_excluded" /\ last.excluded) =>
        \E e \in DOMAIN exclusions :
            /\ exclusions[e].is_active
            /\ exclusions[e].indicator_type \in {last.indicator_type, "all"}
            /\ RuleMatches(e, last.value)

\* A check returned true for an active matching rule of the type
C9_Excluded ==
    /\ last.op = "is_indicator_excluded"
    /\ last.excluded
    /\ ~last.raised

\* The pattern of rule e, as handed to re.search, does not compile
Malformed(e) ==
    \/ /\ exclusions[e].pattern_type = "regex"
       /\ ParseRe(exclusions[e].value, <<>>).status # "ok"
    \/ /\ exclusions[e].pattern_type = "wildcard"
       /\ ParseRe(WildcardRegex(exclusions[e].value), <<>>).status # "ok"

\* C10: a malformed regex or wildcard pattern in an active rule is a
\* non-match and never raises: is_indicator_excluded returns a boolean for
\* every value, no malformed rule makes it return true, and get_indicators
\* with include_excluded = false returns its result.
C10_MalformedNeverRaises ==
    /\ last.op = "is_indicator_excluded" =>
          /\ ~last.raised
          /\ (\A e \in DOMAIN exclusions :
                 (exclusions[e].is_active
                    /\ exclusions[e].indicator_type \in {last.indicator_type, "all"})
                 => Malformed(e))
             => ~last.excluded
    /\ (last.op = "get_indicators" /\ ~last.include_excluded) => ~last.raised

\* The wildcard pattern, with only '*' (any sequence of characters) and '?'
\* (any one character) special, matches a prefix of value, case-insensitively
RECURSIVE WildcardHere(_, _)
WildcardHere(pattern, value) ==
    IF pattern = <<>> THEN TRUE
    ELSE IF Head(pattern) = "*"
    THEN \/ WildcardHere(Tail(pattern), value)
         \/ value # <<>> /\ WildcardHere(pattern, Tail(value))
    ELSE /\ value # <<>>
         /\ Head(pattern) = "?" \/ LowerChar(Head(pattern)) = LowerChar(Head(value))
         /\ WildcardHere(Tail(pattern), Tail(value))

\* Some substring of value matches the wildcard pattern
WildcardSomewhere(pattern, value) ==
    \E i \in 1..(Len(value) + 1) : WildcardHere(pattern, SubSeq(value, i, Len(value)))

\* C11: for a wildcard rule, _matches_pattern(value, pattern, wildcard) is
\* true exactly when some substring of value matches the pattern
\* case-insensitively, with '*' for any sequence of characters and '?' for
\* exactly one character.
C11_WildcardMatchesSubstring ==
    (matchResult.called /\ matchArgs.pattern_type = "wildcard") =>
        /\ matchResult.outcome.exception = "none"
        /\ matchResult.outcome.matched
              = WildcardSomewhere(matchArgs.pattern, matchArgs.value)

\* C12: every indicator get_indicators returns with include_excluded = false
\* has is_indicator_excluded(indicator_type, value) = false at the time of
\* the query, and with include_excluded = true the query returns every
\* indicator of the selected page, those an active rule matches included.
C12_ServedAreNotExcluded ==
    (last.op = "get_indicators" /\ ~last.raised) =>
        IF last.include_excluded
        THEN last.items = last.page
        ELSE \A k \in DOMAIN last.items :
                /\ \E j \in DOMAIN last.page : last.page[j] = last.items[k]
                /\ \A outcome \in is_indicator_excluded(
                                     indicators[last.items[k]].indicator_type,
                                     indicators[last.items[k]].value) :
                      ~outcome.raised /\ ~outcome.excluded

\* get_indicators with include_excluded = false returned a page of which it
\* kept one indicator and dropped another
C12_PagePartlyExcluded ==
    /\ last.op = "get_indicators"
    /\ ~last.include_excluded
    /\ ~last.raised
    /\ last.items # <<>>
    /\ Len(last.items) < Len(last.page)

\* C13: in every reachable store each stored indicator has
\* normalized_value = normalize_indicator(indicator_type, value).
C13_StoredValueIsNormalized ==
    \A i \in DOMAIN indicators :
        indicators[i].normalized_value
            = normalize_indicator(indicators[i].indicator_type, indicators[i].value)

\* A merge has been made into a row whose raw value is not its normalized
\* value
C13_MergedIntoNormalizedRow ==
    /\ last.op = "create_indicator"
    /\ last.merged
    /\ last.id \in DOMAIN indicators
    /\ indicators[last.id].value # indicators[last.id].normalized_value

\* C14: deduplicate_indicators deletes no indicator: the stored ids are the
\* same before and after the call, and every indicator a link created by the
\* call names as duplicate_indicator_id is stored and inactive when the call
\* returns.
C14_DedupDeletesNothing ==
    [][last'.op = "deduplicate_indicators" =>
          /\ DOMAIN indicators' = DOMAIN indicators
          /\ \A l \in BagToSet(duplicates' (-) duplicates) :
                /\ l.duplicate_indicator_id \in DOMAIN indicators'
                /\ ~indicators'[l.duplicate_indicator_id].is_active]_vars

\* A deduplicate_indicators call has linked a duplicate
C14_DuplicateLinked ==
    /\ last.op = "deduplicate_indicators"
    /\ last.result.duplicates_found > 0
    /\ \E l \in BagToSet(duplicates) : l.duplicate_indicator_id \in DOMAIN indicators

\* C15: normalize_indicator gives a result for every value, and for an
\* indicator type outside ip, domain, url, hash and email (cve) the result is
\* the value lowercased with leading and trailing whitespace removed.
C15_DefaultIsLowercaseTrim ==
    (normOnce # NoStr /\ normType \notin {"ip", "domain", "url", "hash", "email"}) =>
        normOnce = Lower(Strip(normIn))

\* C16: when two create_indicator calls for the same (indicator_type,
\* normalized value) run with their query and insert steps interleaved, the
\* store never holds two rows of that key.
C16_OneRowPerKey ==
    \A i, j \in DOMAIN indicators : GroupKey(i) = GroupKey(j) => i = j

\* C17: the result of deduplicate_indicators reports original_count = the
\* number of stored indicators, deduplicated_count = the number of indicators
\* with is_active = true after the call, and duplicates_found = the number of
\* indicators the call marked as duplicates.
C17_DedupCounts ==
    [][last'.op = "deduplicate_indicators" =>
          /\ last'.result.original_count = Cardinality(DOMAIN indicators')
          /\ last'.result.deduplicated_count
                = Cardinality({i \in DOMAIN indicators' : indicators'[i].is_active})
          /\ last'.result.duplicates_found
                = BagCardinality(duplicates' (-) duplicates)]_vars

\* The table of exclusions that holds one active rule of type "all"
OnlyRule(pattern, pattern_type) ==
    <<[indicator_type |-> "all", value |-> pattern,
       pattern_type |-> pattern_type, is_active |-> TRUE]>>

\* C18: every indicator i that test_exclusion_pattern(pattern, pattern_type)
\* tested is among its matches if and only if an active rule of type "all"
\* with that pattern and pattern_type, alone in the rule set, makes
\* is_indicator_excluded(i.indicator_type, i.value) true.
C18_TestUsesSamePredicate ==
    last.op = "test_exclusion_pattern" =>
        \A k \in DOMAIN last.tested :
            (\E j \in DOMAIN last.matches : last.matches[j] = last.tested[k])
            <=> ExcludedUnder(OnlyRule(last.pattern, last.pattern_type),
                              indicators[last.tested[k]].indicator_type,
                              indicators[last.tested[k]].value)
                   = {[raised |-> FALSE, excluded |-> TRUE]}

\* A pattern was tested against two indicators, and matched one of them
C18_OneOfTwoMatched ==
    /\ last.op = "test_exclusion_pattern"
    /\ Len(last.tested) = 2
    /\ Len(last.matches) = 1

\* C19: when a write fails during deduplicate_indicators, the committed store
\* holds no indicator the run marked inactive without its IndicatorDuplicate
\* link and no link of the run whose duplicate is still active, and the
\* failure is raised; the same holds of a run without failure.
C19_MarkAndLinkAtomic ==
    [][last'.op \in {"deduplicate_indicators", "deduplicate_indicators_raised"} =>
          /\ \A i \in DOMAIN indicators :
                (indicators[i].is_active /\ ~indicators'[i].is_active) =>
                    \E l \in BagToSet(duplicates' (-) duplicates) :
                        l.duplicate_indicator_id = i
          /\ \A l \in BagToSet(duplicates' (-) duplicates) :
                ~indicators'[l.duplicate_indicator_id].is_active
          /\ last'.op = "deduplicate_indicators" =>
                last'.result.duplicates_found
                    = BagCardinality(duplicates' (-) duplicates)]_vars

\* A deduplicate_indicators run has failed on a store with an active
\* duplicate to mark
C19_RunFailed ==
    /\ last.op = "deduplicate_indicators_raised"
    /\ last.raised
    /\ \E i, j \in DOMAIN indicators :
          i # j /\ GroupKey(i) = GroupKey(j)
               /\ indicators[i].is_active /\ indicators[j].is_active

\* The numbers of the four digit groups of a dotted-quad value, surrounding
\* whitespace left out
Octets(value) ==
    [k \in 1..4 |-> NumeralValue(Split(Strip(value), <<".">>)[k])]

\* Two dotted-quad values that differ at most in leading zeros of their
\* groups and in surrounding whitespace
SameAddress(v, w) ==
    /\ IsDottedQuad(Strip(v))
    /\ IsDottedQuad(Strip(w))
    /\ Octets(v) = Octets(w)

\* C20: for type ip, two dotted-quad values that differ only in leading zeros
\* of their groups or in surrounding whitespace get the same normalized
\* value, the groups rendered as decimal integers, and a create_indicator
\* call (run without interruption) for one of them merges into the stored
\* row of the other.
C20_AddressesMerge ==
    [][\A data \in IpInputs :
          (/\ last'.op = "create_indicator"
           /\ \E i \in DOMAIN indicators :
                 /\ indicators[i].indicator_type = "ip"
                 /\ SameAddress(indicators[i].value, data.value)
           /\ CreateIndicator(data))
          => /\ last'.merged
             /\ DOMAIN indicators' = DOMAIN indicators
             /\ SameAddress(indicators'[last'.id].value, data.value)
             /\ \A k \in 1..4 :
                   NumeralValue(Split(indicators'[last'.id].normalized_value,
                                      <<".">>)[k]) = Octets(data.value)[k]
             /\ \A k \in 1..4 :
                   LET group == Split(indicators'[last'.id].normalized_value, <<".">>)[k]
                   IN  Len(group) = 1 \/ Head(group) # "0"]_vars

\* The row created for "01.0.0.2" has taken the confidence of "1.0.0.2" by a
\* merge
C20_MergedAcrossSpellings ==
    /\ last.op = "create_indicator"
    /\ last.merged
    /\ last.id \in DOMAIN indicators
    /\ indicators[last.id].value = <<"0", "1", ".", "0", ".", "0", ".", "2">>
    /\ indicators[last.id].confidence_score = 9

\* The link rows a step added that name row i as the duplicate: row i is a
\* survivor of a deduplicate_indicators step when there is none
LinkedAsDuplicate(i) ==
    \E l \in DOMAIN duplicates' :
        /\ l.duplicate_indicator_id = i
        /\ CopiesIn(l, duplicates') > CopiesIn(l, duplicates)

\* C21, as claimed: deduplicate_indicators leaves every survivor untouched
\* (no field of the chosen primary of a group, and no field of an indicator
\* in a group of size one, changes), and on a non-survivor it changes only
\* is_active.
C21_OnlyIsActiveChanges ==
    [][last'.op = "deduplicate_indicators" =>
          /\ DOMAIN indicators' = DOMAIN indicators
          /\ \A i \in DOMAIN indicators :
                /\ updated_at'[i] = updated_at[i]
                /\ IF LinkedAsDuplicate(i)
                   THEN indicators'[i] = [indicators[i] EXCEPT !.is_active = FALSE]
                   ELSE indicators'[i] = indicators[i]]_vars

\* C21, amended: deduplicate_indicators changes no column of a survivor,
\* updated_at included, and on a non-survivor it changes only is_active and,
\* through the column's onupdate, updated_at.
C21_SurvivorsUntouched ==
    [][last'.op = "deduplicate_indicators" =>
          /\ DOMAIN indicators' = DOMAIN indicators
          /\ \A i \in DOMAIN indicators :
                IF LinkedAsDuplicate(i)
                THEN indicators'[i] = [indicators[i] EXCEPT !.is_active = FALSE]
                ELSE /\ indicators'[i] = indicators[i]
                     /\ updated_at'[i] = updated_at[i]]_vars

\* A run has deactivated a duplicate next to its primary, which was stamped
\* before the clock moved
C21_DuplicateStamped ==
    /\ last.op = "deduplicate_indicators"
    /\ last.result.duplicates_found > 0
    /\ \E i, j \in DOMAIN indicators :
          /\ i # j
          /\ GroupKey(i) = GroupKey(j)
          /\ ~indicators[i].is_active /\ updated_at[i] = now
          /\ indicators[j].is_active /\ updated_at[j] < now

\* Rule e is the only stored rule that matches indicator i: it is of the
\* indicator's type or of type "all" and matches its value, and no other
\* rule does
OnlyMatchedBy(i, e) ==
    LET matches(r) ==
            /\ exclusions[r].indicator_type \in {indicators[i].indicator_type, "all"}
            /\ RuleMatches(r, indicators[i].value)
    IN  /\ matches(e)
        /\ \A r \in DOMAIN exclusions \ {e} : ~matches(r)

\* C22: toggle_exclusion on an existing rule flips its is_active and changes
\* nothing else about the rule or any indicator; toggling twice restores the
\* original state; an indicator matched only by that rule is excluded from
\* get_indicators (include_excluded = false) exactly in the states where the
\* rule is active. The rule's updated_at, which update_exclusion assigns on
\* every call, is not counted as part of the rule.
C22_ToggleFlipsAndHides ==
    [][/\ (last'.op = "update_exclusion" /\ last'.found) =>
             /\ \E e \in DOMAIN exclusions :
                   exclusions' = [exclusions EXCEPT ![e].is_active = ~@]
             /\ indicators' = indicators
             /\ updated_at' = updated_at
       /\ toggled'.n = 2 =>
             exclusions'[toggled'.id] = toggled'.rule
       /\ (last'.op = "get_indicators" /\ ~last'.include_excluded) =>
             \A k \in DOMAIN last'.page, e \in DOMAIN exclusions :
                 OnlyMatchedBy(last'.page[k], e) =>
                     ((\A j \in DOMAIN last'.items : last'.items[j] # last'.page[k])
                          <=> exclusions[e].is_active)]_vars

\* C23: import_exclusions_from_file given a JSON item with no indicator_type
\* stores a rule whose indicator_type is "all", and is_indicator_excluded
\* then applies that rule to indicators of every type.
C23_ImportStoresAllRule ==
    [][last'.op = "import_exclusions_from_file" =>
          \A k \in DOMAIN last'.data :
              "indicator_type" \notin DOMAIN last'.data[k] =>
                  \E e \in DOMAIN exclusions' \ DOMAIN exclusions :
                      /\ exclusions'[e].indicator_type = "all"
                      /\ exclusions'[e].value = last'.data[k]["value"]
                      /\ \A t \in IndicatorTypes :
                            e \in ApplicableIn(exclusions', t)]_vars

\* The pattern holds neither '*' nor '?'
Plain(pattern) ==
    \A i \in DOMAIN pattern : pattern[i] \notin {"*", "?"}

\* C24: in a wildcard pattern only '*' and '?' are special, so a wildcard
\* pattern without them matches a value exactly when the value holds the
\* pattern as a substring, each character of the pattern matching only that
\* same character, case-insensitively.
C24_OtherCharactersLiteral ==
    (/\ matchResult.called
     /\ matchArgs.pattern_type = "wildcard"
     /\ Plain(matchArgs.pattern)) =>
        /\ matchResult.outcome.exception = "none"
        /\ matchResult.outcome.matched
              <=> \E i \in 1..(Len(matchArgs.value) + 1) :
                     /\ i + Len(matchArgs.pattern) - 1 <= Len(matchArgs.value)
                     /\ Lower(SubSeq(matchArgs.value, i,
                                     i + Len(matchArgs.pattern) - 1))
                           = Lower(matchArgs.pattern)

\* C25: for a fixed rule set, any two raw values of the same indicator type
\* that normalize_indicator maps to the same normalized value receive the
\* same is_indicator_excluded result.
C25_SpellingsDecidedAlike ==
    last.op = "is_indicator_excluded" =>
        \A c \in SpellChecks :
            (/\ c[1] = last.indicator_type
             /\ normalize_indicator(c[1], c[2])
                   = normalize_indicator(last.indicator_type, last.value)) =>
                is_indicator_excluded(c[1], c[2])
                    = is_indicator_excluded(last.indicator_type, last.value)

\* C26: a fetch job's status only moves pending -> running -> completed or
\* pending -> running -> failed: a completed job stays completed, whatever
\* the later steps of the task do, and a failed job stays failed.
C26_JobStatusMovesForward ==
    [][\A j \in DOMAIN fetch_jobs :
          \/ fetch_jobs'[j].status = fetch_jobs[j].status
          \/ fetch_jobs[j].status = "pending" /\ fetch_jobs'[j].status = "running"
          \/ /\ fetch_jobs[j].status = "running"
             /\ fetch_jobs'[j].status \in {"completed", "failed"}]_vars

\* C27: each create_indicator call of fetch_feed_data_task adds to
\* new_indicators the number of rows it inserted, so that when the task
\* completes a job its indicators_new, the counter, is the number of rows
\* the task inserted (merged indicators are not counted), and
\* indicators_new <= indicators_found.
C27_NewCountsInsertedRows ==
    [][/\ (task.pc = "create" /\ task'.pc = "create") =>
             task'.new_indicators - task.new_indicators
                 = Cardinality(DOMAIN indicators') - Cardinality(DOMAIN indicators)
       /\ (task.pc = "create" /\ task'.pc = "last_fetch") =>
             /\ fetch_jobs'[task.job_id].indicators_new = task.new_indicators
             /\ fetch_jobs'[task.job_id].indicators_new
                   <= fetch_jobs'[task.job_id].indicators_found]_vars

\* C28: after logout(refresh_token) has returned true, a subsequent
\* refresh_token(refresh_token) call with that token is rejected and creates
\* no session.
C28_LoggedOutTokenRejected ==
    [][(/\ last.op = "logout" /\ last.result
        /\ last'.op = "refresh_token" /\ last'.token = last.token) =>
           /\ last'.rejected
           /\ user_sessions' = user_sessions]_vars

\* C29: after any sequence of login, refresh_token, logout and
\* revoke_session calls executed one at a time, each user has at most one
\* UserSession with is_active = true.
C29_OneActiveSessionPerUser ==
    \A u \in DOMAIN Users :
        Cardinality({s \in DOMAIN user_sessions :
                        user_sessions[s].user_id = u /\ user_sessions[s].is_active}) <= 1

\* A user has a session that a later login or refresh replaced, and the
\* session that replaced it
C29_SessionReplaced ==
    \E s, t \in DOMAIN user_sessions :
        /\ s < t
        /\ user_sessions[s].user_id = user_sessions[t].user_id
        /\ ~user_sessions[s].is_active
        /\ user_sessions[t].is_active
        /\ last.op \in {"login", "refresh_token"}
        /\ ~last.rejected

\* C30: an EDR extraction whose status _run_extraction has committed as
\* "completed" keeps that status, whatever the follow-up analysis of its
\* indicators does.
C30_CompletedExtractionStays ==
    [][\A e \in DOMAIN edr_extractions :
          edr_extractions[e].status = "completed"
              => edr_extractions'[e].status = "completed"]_vars

====
